---- MODULE Spec2Model ----
(***************************************************************************)
(* IoTflow Kernel: the M24C08-R EEPROM storage driver (EEPROM_driver.py)   *)
(* and the binary configuration codec (config_serializer.py).              *)
(*                                                                         *)
(* Spec       the storage driver against a model of the memory device:     *)
(*            every bus transaction of read_bytes, write_bytes, erase_page *)
(*            and of the ACK-polling loop is one step.                     *)
(* SpecCodec  pack_config / unpack_config applied to configuration records *)
(*            drawn from bounded sets.                                     *)
(* SpecTruncated   unpack_config applied to every proper prefix of a       *)
(*            packed stream.                                               *)
(* SpecEraseAll    erase_all, page after page.                             *)
(* SpecConcurrent  read_bytes called by two threads on one instance.       *)
(* SpecLive   write_bytes under weak fairness of the driver's steps.       *)
(* SpecBounds read_bytes, write_bytes, write_byte, erase_page and dump_hex *)
(*            called with arguments on both sides of the bounds.           *)
(* SpecDisjoint    two writes and a read.                                  *)
(* SpecRepack pack_config applied again to the record unpack_config        *)
(*            restored.                                                    *)
(***************************************************************************)
EXTENDS Integers, Sequences, FiniteSets, TLC

VARIABLES
    e2_bit,        \* EEPROM.e2_bit
    devE2,         \* level of the device's E2 pin
    mem,           \* the device's memory cells, page by page (see Cell)
    devptr,        \* the device's internal address counter (low 8 bits)
    devbusy,       \* milliseconds left of the device's internal write cycle
    devstuck,      \* the device never finishes its write cycle
    faults,        \* bus faults injected so far
    pc,            \* position of the caller inside the driver
    op,            \* the storage operation in progress (or the last one)
    result,        \* its outcome
    prev,          \* the operation completed before it, with its outcome, and
                   \* the one before that
    offset,        \* write_bytes: offset
    remaining,     \* read_bytes: remaining
    current_addr,  \* read_bytes / write_bytes: current_addr
    data,          \* read_bytes: data
    elapsed,       \* _wait_write_complete: milliseconds since the loop began
    bus,           \* the last transaction on the bus
    chunks,        \* the chunks the operation in progress has transferred
    snap,          \* the memory cells when the operation in progress began
    nops,          \* storage operations called so far
    second,        \* a second caller of the same instance, inside read_bytes
    cfg,           \* codec: the configuration record handed to pack_config
    packed,        \* codec: outcome of pack_config
    restored,      \* codec: outcome of unpack_config
    cpc,           \* codec: position of the pack / unpack sequence
    cut,           \* codec: length of the stream handed to unpack_config
    repacked       \* codec: outcome of pack_config on the record restored

devVars == <<devE2, mem, devptr, devbusy, devstuck, faults>>
drvVars == <<e2_bit, pc, op, result, prev, offset, remaining, current_addr,
             data, elapsed, bus, chunks, snap, nops, second>>
codecVars == <<cfg, packed, restored, cpc, cut, repacked>>
vars == <<devVars, drvVars, codecVars>>

(***************************************************************************)
(* Bounds of the model                                                     *)
(***************************************************************************)
MaxOps == 2        \* storage operations per behaviour
MaxBusy == 1       \* longest write cycle of a healthy device, in ms
MaxFaults == 1     \* bus faults (a NACK, a device that stays busy) per behaviour

(***************************************************************************)
(* Program constants                                                       *)
(***************************************************************************)
MEMORY_SIZE == 1024
PAGE_SIZE == 16
MAX_WRITE_TIME_MS == 10
BASE_CODE == 87            \* 0x57, the literal of _get_device_address
BLOCK_SIZE == 256          \* the literal 256 of read_bytes
ERASED == 255              \* 0xFF

Byte == 0..255

(***************************************************************************)
(* Bit operations on naturals                                              *)
(***************************************************************************)
RECURSIVE BitOr(_, _)
BitOr(a, b) ==
    IF a = 0 THEN b
    ELSE IF b = 0 THEN a
    ELSE (IF a % 2 = 1 \/ b % 2 = 1 THEN 1 ELSE 0) + 2 * BitOr(a \div 2, b \div 2)

RECURSIVE BitAnd(_, _)
BitAnd(a, b) ==
    IF a = 0 \/ b = 0 THEN 0
    ELSE (IF a % 2 = 1 /\ b % 2 = 1 THEN 1 ELSE 0) + 2 * BitAnd(a \div 2, b \div 2)

Min(a, b) == IF a <= b THEN a ELSE b

(***************************************************************************)
(* EEPROM._get_device_address                                              *)
(***************************************************************************)
GetDeviceAddress(e2, memory_address) ==
    LET a9_a8 == BitAnd(memory_address \div 256, 3)
    IN  BitOr(BitOr(BASE_CODE, e2 * 4), a9_a8)

\* "Device select format: 1010 E2 A9 A8": the code the docstring describes.
DocumentedSelect(e2, block) == 80 + 4 * e2 + block

(***************************************************************************)
(* EEPROM._validate_address: TRUE when neither ValueError is raised        *)
(***************************************************************************)
ValidateAddress_OffByOne(address, length) ==
    ~(address < 0 \/ address >= MEMORY_SIZE) /\ ~(address + length >= MEMORY_SIZE)

ValidateAddress_StartOnly(address, length) ==
    ~(address < 0 \/ address >= MEMORY_SIZE)

ValidateAddress(address, length) ==
    ~(address < 0 \/ address >= MEMORY_SIZE) /\ ~(address + length > MEMORY_SIZE)

(***************************************************************************)
(* The memory device (M24C08-R) behind the bus                             *)
(***************************************************************************)
\* The device answers the select codes 1010 E2 x x of its own E2 level.
DevSelected(dsc) == dsc \div 4 = 20 + devE2
DevReady == devbusy = 0 /\ ~devstuck
\* A transaction is acknowledged by a selected device outside its write cycle.
DevAcks(dsc) == DevSelected(dsc) /\ DevReady
\* The 256-byte block is decoded from the low two bits of the select code.
DevBlock(dsc) == dsc % 4
\* Physical cell of the i-th byte (from 0) of a page write: the address
\* counter rolls over inside the 16-byte page.
DevWriteCell(dsc, addr_byte, i) ==
    LET page == addr_byte \div PAGE_SIZE
    IN  DevBlock(dsc) * BLOCK_SIZE + page * PAGE_SIZE + ((addr_byte + i) % PAGE_SIZE)
\* Physical cell of the i-th byte (from 0) of a sequential read.
DevReadCell(dsc, i) == DevBlock(dsc) * BLOCK_SIZE + ((devptr + i) % BLOCK_SIZE)

\* The contents of physical cell c of memory m.
Cell(m, c) == m[(c \div PAGE_SIZE) + 1][(c % PAGE_SIZE) + 1]
\* The memory whose physical cell c holds f(c).
Cells(f(_)) ==
    [p \in 1..(MEMORY_SIZE \div PAGE_SIZE) |->
        [i \in 1..PAGE_SIZE |-> f((p - 1) * PAGE_SIZE + (i - 1))]]

\* The cells m after a page write of `bytes` (the last byte sent to a cell
\* stays).
DevPageWriteOn(m, dsc, addr_byte, bytes) ==
    LET written(c) ==
            IF \E i \in 0..(Len(bytes) - 1) : DevWriteCell(dsc, addr_byte, i) = c
            THEN bytes[1 + (CHOOSE i \in 0..(Len(bytes) - 1) :
                              /\ DevWriteCell(dsc, addr_byte, i) = c
                              /\ \A j \in (i + 1)..(Len(bytes) - 1) :
                                    DevWriteCell(dsc, addr_byte, j) # c)]
            ELSE Cell(m, c)
    IN  Cells(written)
DevPageWrite(dsc, addr_byte, bytes) == DevPageWriteOn(mem, dsc, addr_byte, bytes)

DevSequentialRead(dsc, n) == [i \in 1..n |-> Cell(mem, DevReadCell(dsc, i - 1))]

(***************************************************************************)
(* Inputs of the storage operations                                        *)
(***************************************************************************)
\* <<address, length>> of the reads and writes: inside one page, across pages,
\* across the 256-byte block boundary, longer than a block, up to and past the
\* end of the memory, and outside it.
RangeSet == {<<-1, 10>>, <<0, 0>>, <<0, 16>>, <<0, 257>>, <<10, 20>>, <<252, 10>>,
             <<1014, 10>>, <<1014, 20>>, <<1024, 0>>}
PageSet == {-1, 0, 16, 63, 64}
\* The bytes handed to write_bytes: a ramp that does not repeat with period 256.
Pattern(length) == [i \in 1..length |-> (7 + i - 1) % 251]
\* Other bytes, to tell two writes apart.
OtherPattern(length) == [i \in 1..length |-> (131 + 2 * (i - 1)) % 251]
\* What the cells hold before the first operation: no cell is 0xFF, and cells
\* 256 apart differ.
InitialCell(c) == (c + 17 * (c \div BLOCK_SIZE)) % 251
InitialMem == Cells(InitialCell)

NoOp == [kind |-> "none", address |-> 0, length |-> 0, data |-> <<>>, page |-> 0]
NoResult == [status |-> "none", value |-> <<>>]
Pending == [status |-> "pending", value |-> <<>>]
Raised(error) == [status |-> error, value |-> <<>>]
Returned(value) == [status |-> "ok", value |-> value]
\* The operation called before the one in progress, with the one before it.
NoPrev == [op |-> NoOp, result |-> NoResult,
           before |-> [op |-> NoOp, result |-> NoResult]]
Before(op_, result_, prev_) ==
    [op |-> op_, result |-> result_,
     before |-> [op |-> prev_.op, result |-> prev_.result]]
\* The second caller before it calls anything.
NoCaller == [pc |-> "idle", op |-> NoOp, result |-> NoResult, remaining |-> 0,
             current_addr |-> 0, data |-> <<>>, nops |-> 0]
NoBus == [kind |-> "none", dev |-> 0, bytes |-> <<>>, n |-> 0, ack |-> FALSE]
\* i2c.writeto(dev, bytes) and i2c.readfrom(dev, n), with the device's answer
WriteTo(dev, bytes, ack) == [kind |-> "write", dev |-> dev, bytes |-> bytes, n |-> 0, ack |-> ack]
ReadFrom(dev, n, ack) == [kind |-> "read", dev |-> dev, bytes |-> <<>>, n |-> n, ack |-> ack]

(***************************************************************************)
(* EEPROM.__init__ and EEPROM._is_device_present                           *)
(***************************************************************************)
Construct_IgnoringAbsence ==
    /\ pc = "new"
    /\ bus' = WriteTo(GetDeviceAddress(e2_bit, 0), <<>>,
                      DevAcks(GetDeviceAddress(e2_bit, 0)))
    /\ pc' = "idle"
    /\ result' = NoResult
    /\ UNCHANGED <<devVars, codecVars, second, e2_bit, op, prev, offset, remaining,
                   current_addr, data, elapsed, chunks, snap, nops>>

Construct ==
    /\ pc = "new"
    /\ LET device_addr == GetDeviceAddress(e2_bit, 0)
           ack == DevAcks(device_addr)
       IN  /\ bus' = WriteTo(device_addr, <<>>, ack)
           /\ pc' = IF ack THEN "idle" ELSE "absent"
           /\ result' = IF ack THEN NoResult ELSE Raised("DeviceNotFoundError")
    /\ UNCHANGED <<devVars, codecVars, second, e2_bit, op, prev, offset, remaining,
                   current_addr, data, elapsed, chunks, snap, nops>>

(***************************************************************************)
(* EEPROM.read_bytes                                                       *)
(***************************************************************************)
\* bytes_to_read = min(remaining, 256 - current_addr_byte)
BytesToRead_NoBlockSplit(remaining_, current_addr_byte) == remaining_

BytesToRead_ToBlockEnd(remaining_, current_addr_byte) ==
    BLOCK_SIZE - current_addr_byte

BytesToRead(remaining_, current_addr_byte) ==
    Min(remaining_, BLOCK_SIZE - current_addr_byte)

\* Entry: _validate_address, then the loop's initial state.
ReadBytes(address, length) ==
    /\ pc = "idle"
    /\ nops < MaxOps
    /\ nops' = nops + 1
    /\ prev' = Before(op, result, prev)
    /\ op' = [kind |-> "read", address |-> address, length |-> length,
              data |-> <<>>, page |-> 0]
    /\ snap' = mem
    /\ chunks' = <<>>
    /\ data' = <<>>
    /\ IF ~ValidateAddress(address, length)
       THEN /\ result' = Raised("RangeError")
            /\ pc' = "idle"
            /\ UNCHANGED <<remaining, current_addr>>
       ELSE /\ remaining' = length
            /\ current_addr' = address
            /\ pc' = IF length > 0 THEN "rd_set" ELSE "idle"
            /\ result' = IF length > 0 THEN Pending ELSE Returned(<<>>)
    /\ UNCHANGED <<devVars, codecVars, second, e2_bit, offset, elapsed, bus>>

\* self.i2c.writeto(current_device_addr, bytes([current_addr_byte]))
ReadSetAddress ==
    /\ pc = "rd_set"
    /\ LET current_device_addr == GetDeviceAddress(e2_bit, current_addr)
           current_addr_byte == BitAnd(current_addr, 255)
       IN  \/ /\ DevAcks(current_device_addr)
              /\ bus' = WriteTo(current_device_addr, <<current_addr_byte>>, TRUE)
              /\ devptr' = current_addr_byte
              /\ pc' = "rd_data"
              /\ UNCHANGED <<result, faults>>
           \/ /\ \/ ~DevAcks(current_device_addr) /\ UNCHANGED faults
                 \/ faults < MaxFaults /\ faults' = faults + 1
              /\ bus' = WriteTo(current_device_addr, <<current_addr_byte>>, FALSE)
              /\ result' = Raised("BusError")
              /\ pc' = "idle"
              /\ UNCHANGED devptr
    /\ UNCHANGED <<devE2, mem, devbusy, devstuck, codecVars, second, e2_bit, op, prev,
                   offset, remaining, current_addr, data, elapsed, chunks, snap, nops>>

\* chunk = self.i2c.readfrom(current_device_addr, bytes_to_read), to the loop's end
ReadData ==
    /\ pc = "rd_data"
    /\ LET current_device_addr == GetDeviceAddress(e2_bit, current_addr)
           current_addr_byte == BitAnd(current_addr, 255)
           bytes_to_read == BytesToRead(remaining, current_addr_byte)
           chunk == DevSequentialRead(current_device_addr, bytes_to_read)
       IN  \/ /\ DevAcks(current_device_addr)
              /\ bus' = ReadFrom(current_device_addr, bytes_to_read, TRUE)
              /\ devptr' = (devptr + bytes_to_read) % BLOCK_SIZE
              /\ data' = data \o chunk
              /\ chunks' = Append(chunks, [addr |-> current_addr, len |-> bytes_to_read,
                                           set_dev |-> bus.dev,
                                           dev |-> current_device_addr,
                                           addr_byte |-> current_addr_byte,
                                           bytes |-> chunk])
              /\ remaining' = remaining - bytes_to_read
              /\ current_addr' = current_addr + bytes_to_read
              \* read_bytes returns to its caller: dump_hex goes on
              /\ pc' = IF remaining' > 0 THEN "rd_set"
                       ELSE IF op.kind = "dump" THEN "dump_next" ELSE "idle"
              /\ result' = IF remaining' > 0 \/ op.kind = "dump"
                           THEN Pending ELSE Returned(data')
              /\ UNCHANGED faults
           \/ /\ \/ ~DevAcks(current_device_addr) /\ UNCHANGED faults
                 \/ faults < MaxFaults /\ faults' = faults + 1
              /\ bus' = ReadFrom(current_device_addr, bytes_to_read, FALSE)
              /\ result' = Raised("BusError")
              /\ pc' = "idle"
              /\ UNCHANGED <<devptr, data, chunks, remaining, current_addr>>
    /\ UNCHANGED <<devE2, mem, devbusy, devstuck, codecVars, second, e2_bit, op, prev,
                   offset, elapsed, snap, nops>>

(***************************************************************************)
(* EEPROM.read_bytes called by a second thread on the same instance: the   *)
(* method takes no lock, its locals are the thread's own, the bus and the  *)
(* device are shared, and each i2c call is one step.                       *)
(***************************************************************************)
SecondReadBytes(address, length) ==
    /\ pc \notin {"new", "absent"}
    /\ second.pc = "idle"
    /\ second.nops < MaxOps
    /\ second' =
          IF ~ValidateAddress(address, length)
          THEN [second EXCEPT !.nops = @ + 1,
                              !.op = [NoOp EXCEPT !.kind = "read", !.address = address,
                                                  !.length = length],
                              !.data = <<>>,
                              !.result = Raised("RangeError")]
          ELSE [pc |-> IF length > 0 THEN "rd_set" ELSE "idle",
                op |-> [NoOp EXCEPT !.kind = "read", !.address = address,
                                    !.length = length],
                result |-> IF length > 0 THEN Pending ELSE Returned(<<>>),
                remaining |-> length,
                current_addr |-> address,
                data |-> <<>>,
                nops |-> second.nops + 1]
    /\ UNCHANGED <<devVars, codecVars, e2_bit, pc, op, result, prev, offset, remaining,
                   current_addr, data, elapsed, bus, chunks, snap, nops>>

SecondReadSetAddress ==
    /\ second.pc = "rd_set"
    /\ LET current_device_addr == GetDeviceAddress(e2_bit, second.current_addr)
           current_addr_byte == BitAnd(second.current_addr, 255)
       IN  \/ /\ DevAcks(current_device_addr)
              /\ bus' = WriteTo(current_device_addr, <<current_addr_byte>>, TRUE)
              /\ devptr' = current_addr_byte
              /\ second' = [second EXCEPT !.pc = "rd_data"]
              /\ UNCHANGED faults
           \/ /\ \/ ~DevAcks(current_device_addr) /\ UNCHANGED faults
                 \/ faults < MaxFaults /\ faults' = faults + 1
              /\ bus' = WriteTo(current_device_addr, <<current_addr_byte>>, FALSE)
              /\ second' = [second EXCEPT !.pc = "idle", !.result = Raised("BusError")]
              /\ UNCHANGED devptr
    /\ UNCHANGED <<devE2, mem, devbusy, devstuck, codecVars, e2_bit, pc, op, result,
                   prev, offset, remaining, current_addr, data, elapsed, chunks, snap,
                   nops>>

SecondReadData ==
    /\ second.pc = "rd_data"
    /\ LET current_device_addr == GetDeviceAddress(e2_bit, second.current_addr)
           current_addr_byte == BitAnd(second.current_addr, 255)
           bytes_to_read == BytesToRead(second.remaining, current_addr_byte)
           chunk == DevSequentialRead(current_device_addr, bytes_to_read)
           left == second.remaining - bytes_to_read
       IN  \/ /\ DevAcks(current_device_addr)
              /\ bus' = ReadFrom(current_device_addr, bytes_to_read, TRUE)
              /\ devptr' = (devptr + bytes_to_read) % BLOCK_SIZE
              /\ second' = [second EXCEPT
                                !.data = @ \o chunk,
                                !.remaining = left,
                                !.current_addr = @ + bytes_to_read,
                                !.pc = IF left > 0 THEN "rd_set" ELSE "idle",
                                !.result = IF left > 0 THEN Pending
                                           ELSE Returned(second.data \o chunk)]
              /\ UNCHANGED faults
           \/ /\ \/ ~DevAcks(current_device_addr) /\ UNCHANGED faults
                 \/ faults < MaxFaults /\ faults' = faults + 1
              /\ bus' = ReadFrom(current_device_addr, bytes_to_read, FALSE)
              /\ second' = [second EXCEPT !.pc = "idle", !.result = Raised("BusError")]
              /\ UNCHANGED devptr
    /\ UNCHANGED <<devE2, mem, devbusy, devstuck, codecVars, e2_bit, pc, op, result,
                   prev, offset, remaining, current_addr, data, elapsed, chunks, snap,
                   nops>>

(***************************************************************************)
(* EEPROM.write_bytes                                                      *)
(***************************************************************************)
ChunkSize_FromWriteStart(current, total, off) ==
    Min(PAGE_SIZE - (off % PAGE_SIZE), total - off)

\* page_start, bytes_left_in_page, chunk_size
ChunkSize(current, total, off) ==
    LET page_start == (current \div PAGE_SIZE) * PAGE_SIZE
        bytes_left_in_page == PAGE_SIZE - (current - page_start)
    IN  Min(bytes_left_in_page, total - off)

\* Entry of write_bytes for `kind` (write_bytes itself, or erase_page calling
\* it): _validate_address, then the loop's initial state.
EnterWrite(kind, page, address, bytes) ==
    /\ nops' = nops + 1
    /\ prev' = Before(op, result, prev)
    /\ op' = [kind |-> kind, address |-> address, length |-> Len(bytes),
              data |-> bytes, page |-> page]
    /\ snap' = mem
    /\ chunks' = <<>>
    /\ IF ~ValidateAddress(address, Len(bytes))
       THEN /\ result' = Raised("RangeError")
            /\ pc' = "idle"
            /\ UNCHANGED offset
       ELSE /\ offset' = 0
            /\ pc' = IF 0 < Len(bytes) THEN "wr_chunk" ELSE "idle"
            /\ result' = IF 0 < Len(bytes) THEN Pending ELSE Returned(<<>>)
    /\ UNCHANGED <<devVars, codecVars, second, e2_bit, remaining, current_addr, data,
                   elapsed, bus>>

WriteBytes(address, bytes) ==
    /\ pc = "idle"
    /\ nops < MaxOps
    /\ EnterWrite("write", 0, address, bytes)

\* One pass of the loop up to self.i2c.writeto(device_addr, write_data)
WriteChunk ==
    /\ pc = "wr_chunk"
    /\ LET current == op.address + offset
           chunk_size == ChunkSize(current, Len(op.data), offset)
           chunk_data == SubSeq(op.data, offset + 1, offset + chunk_size)
           device_addr == GetDeviceAddress(e2_bit, current)
           addr_byte == BitAnd(current, 255)
           write_data == <<addr_byte>> \o chunk_data
           sent(ack) == [addr |-> current, len |-> chunk_size, dev |-> device_addr,
                         addr_byte |-> addr_byte, bytes |-> chunk_data, ack |-> ack]
       IN  /\ current_addr' = current
           /\ \/ /\ DevAcks(device_addr)
                 /\ bus' = WriteTo(device_addr, write_data, TRUE)
                 /\ chunks' = Append(chunks, sent(TRUE))
                 /\ mem' = DevPageWrite(device_addr, addr_byte, chunk_data)
                 /\ devptr' = (addr_byte + chunk_size) % BLOCK_SIZE
                 \* the device starts its internal write cycle
                 /\ \/ /\ devbusy' \in 0..MaxBusy
                       /\ UNCHANGED <<devstuck, faults>>
                    \/ /\ faults < MaxFaults
                       /\ faults' = faults + 1
                       /\ devstuck' = TRUE
                       /\ devbusy' = 0
                 /\ elapsed' = 0
                 /\ pc' = "wr_poll"
                 /\ UNCHANGED result
              \/ /\ \/ ~DevAcks(device_addr) /\ UNCHANGED faults
                    \/ faults < MaxFaults /\ faults' = faults + 1
                 /\ bus' = WriteTo(device_addr, write_data, FALSE)
                 /\ chunks' = Append(chunks, sent(FALSE))
                 /\ result' = Raised("BusError")
                 /\ pc' = "idle"
                 /\ UNCHANGED <<mem, devptr, devbusy, devstuck, elapsed>>
    /\ UNCHANGED <<devE2, codecVars, second, e2_bit, op, prev, offset, remaining, data,
                   snap, nops>>

(***************************************************************************)
(* EEPROM._wait_write_complete                                             *)
(***************************************************************************)
\* timeout = ticks_ms() + MAX_WRITE_TIME_MS * 3; while ticks_diff(timeout, now) > 0
PollAgain(elapsed_) == elapsed_ < MAX_WRITE_TIME_MS * 3

WaitReturns_IgnoringNack(ack) == TRUE

TimedOut_Swallowed == Returned(<<>>)
\* raise RuntimeError("Write cycle timeout")
TimedOut == Raised("WriteTimeoutError")

\* try: writeto(device_addr, b''); return / except OSError: sleep_ms(1)
WaitReturns(ack) == ack

TicksAfterSleep_Frozen(elapsed_) == elapsed_
\* time.sleep_ms(1): the clock read by the loop's test is one millisecond on
TicksAfterSleep(elapsed_) == elapsed_ + 1

\* One pass of the polling loop, and on its return the end of write_bytes' pass.
WaitWriteComplete ==
    /\ pc = "wr_poll"
    /\ LET device_addr == GetDeviceAddress(e2_bit, current_addr)
           ack == DevAcks(device_addr)
           chunk_size == chunks[Len(chunks)].len
       IN  /\ bus' = WriteTo(device_addr, <<>>, ack)
           /\ IF WaitReturns(ack)
              THEN /\ offset' = offset + chunk_size
                   /\ elapsed' = 0
                   \* write_bytes returns to its caller: erase_all goes on
                   /\ pc' = IF offset' < Len(op.data) THEN "wr_chunk"
                            ELSE IF op.kind = "erase_all" THEN "ea_next" ELSE "idle"
                   /\ result' = IF offset' < Len(op.data) \/ op.kind = "erase_all"
                                THEN Pending ELSE Returned(<<>>)
                   /\ UNCHANGED devbusy
              ELSE /\ elapsed' = TicksAfterSleep(elapsed)
                   /\ devbusy' = IF devbusy > 0 THEN devbusy - 1 ELSE 0
                   /\ pc' = IF PollAgain(elapsed') THEN "wr_poll" ELSE "idle"
                   /\ result' = IF PollAgain(elapsed') THEN Pending ELSE TimedOut
                   /\ UNCHANGED offset
    /\ UNCHANGED <<devE2, mem, devptr, devstuck, faults, codecVars, second, e2_bit, op,
                   prev, remaining, current_addr, data, chunks, snap, nops>>

(***************************************************************************)
(* EEPROM.erase_page                                                       *)
(***************************************************************************)
ErasePage(page_number) ==
    /\ pc = "idle"
    /\ nops < MaxOps
    /\ IF ~(0 <= page_number /\ page_number < MEMORY_SIZE \div PAGE_SIZE)
       THEN /\ nops' = nops + 1
            /\ prev' = Before(op, result, prev)
            /\ op' = [kind |-> "erase", address |-> 0, length |-> 0,
                      data |-> <<>>, page |-> page_number]
            /\ result' = Raised("RangeError")
            /\ snap' = mem
            /\ chunks' = <<>>
            /\ UNCHANGED <<devVars, codecVars, second, e2_bit, pc, offset, remaining,
                           current_addr, data, elapsed, bus>>
       ELSE LET address == page_number * PAGE_SIZE
                erase_data == [i \in 1..PAGE_SIZE |-> ERASED]
            IN  EnterWrite("erase", page_number, address, erase_data)

(***************************************************************************)
(* EEPROM.erase_all                                                        *)
(***************************************************************************)
\* Entry: the first pass of `for page in range(MEMORY_SIZE // PAGE_SIZE)`,
\* erase_page(0) up to the loop of write_bytes.
EraseAll ==
    /\ pc = "idle"
    /\ nops < MaxOps
    /\ EnterWrite("erase_all", 0, 0, [i \in 1..PAGE_SIZE |-> ERASED])

\* erase_page(page) has returned: the next pass, or the end of the loop.
EraseAllNext ==
    /\ pc = "ea_next"
    /\ LET page == op.page + 1
       IN  IF page < MEMORY_SIZE \div PAGE_SIZE
           THEN /\ op' = [op EXCEPT !.page = page, !.address = page * PAGE_SIZE]
                /\ offset' = 0
                /\ pc' = "wr_chunk"
                /\ UNCHANGED result
           ELSE /\ pc' = "idle"
                /\ result' = Returned(<<>>)
                /\ UNCHANGED <<op, offset>>
    /\ UNCHANGED <<devVars, codecVars, second, e2_bit, prev, remaining, current_addr, data,
                   elapsed, bus, chunks, snap, nops>>

(***************************************************************************)
(* EEPROM.write_byte                                                       *)
(***************************************************************************)
\* Entry: _validate_address(address), then the test of the value.
WriteByte(address, value) ==
    /\ pc = "idle"
    /\ nops < MaxOps
    /\ nops' = nops + 1
    /\ prev' = Before(op, result, prev)
    /\ op' = [kind |-> "write_byte", address |-> address, length |-> 1,
              data |-> <<value>>, page |-> 0]
    /\ snap' = mem
    /\ chunks' = <<>>
    /\ offset' = 0
    /\ IF ~ValidateAddress(address, 1)
       THEN result' = Raised("RangeError") /\ pc' = "idle"
       ELSE IF ~(0 <= value /\ value <= 255)
       THEN result' = Raised("ValueError") /\ pc' = "idle"
       ELSE result' = Pending /\ pc' = "wb_send"
    /\ UNCHANGED <<devVars, codecVars, second, e2_bit, remaining, current_addr, data,
                   elapsed, bus>>

\* self.i2c.writeto(device_addr, bytes([addr_byte, value]))
WriteByteSend ==
    /\ pc = "wb_send"
    /\ LET device_addr == GetDeviceAddress(e2_bit, op.address)
           addr_byte == BitAnd(op.address, 255)
           write_data == <<addr_byte>> \o op.data
           sent(ack) == [addr |-> op.address, len |-> 1, dev |-> device_addr,
                         addr_byte |-> addr_byte, bytes |-> op.data, ack |-> ack]
       IN  /\ current_addr' = op.address
           /\ \/ /\ DevAcks(device_addr)
                 /\ bus' = WriteTo(device_addr, write_data, TRUE)
                 /\ chunks' = Append(chunks, sent(TRUE))
                 /\ mem' = DevPageWrite(device_addr, addr_byte, op.data)
                 /\ devptr' = (addr_byte + 1) % BLOCK_SIZE
                 /\ \/ /\ devbusy' \in 0..MaxBusy
                       /\ UNCHANGED <<devstuck, faults>>
                    \/ /\ faults < MaxFaults
                       /\ faults' = faults + 1
                       /\ devstuck' = TRUE
                       /\ devbusy' = 0
                 /\ elapsed' = 0
                 /\ pc' = "wr_poll"
                 /\ UNCHANGED result
              \/ /\ \/ ~DevAcks(device_addr) /\ UNCHANGED faults
                    \/ faults < MaxFaults /\ faults' = faults + 1
                 /\ bus' = WriteTo(device_addr, write_data, FALSE)
                 /\ chunks' = Append(chunks, sent(FALSE))
                 /\ result' = Raised("BusError")
                 /\ pc' = "idle"
                 /\ UNCHANGED <<mem, devptr, devbusy, devstuck, elapsed>>
    /\ UNCHANGED <<devE2, codecVars, second, e2_bit, op, prev, offset, remaining, data,
                   snap, nops>>

(***************************************************************************)
(* EEPROM.dump_hex (bytes_per_line = 16; what it prints is not kept)       *)
(***************************************************************************)
\* if length is None: length = self.MEMORY_SIZE - start_addr
DumpLength(start_addr) == MEMORY_SIZE - start_addr

\* Entry: _validate_address(start_addr, length).
DumpHex(start_addr, length) ==
    /\ pc = "idle"
    /\ nops < MaxOps
    /\ nops' = nops + 1
    /\ prev' = Before(op, result, prev)
    /\ op' = [kind |-> "dump", address |-> start_addr, length |-> length,
              data |-> <<>>, page |-> 0]
    /\ snap' = mem
    /\ chunks' = <<>>
    /\ data' = <<>>
    /\ offset' = 0
    /\ IF ~ValidateAddress(start_addr, length)
       THEN result' = Raised("RangeError") /\ pc' = "idle"
       ELSE result' = Pending /\ pc' = "dump_next"
    /\ UNCHANGED <<devVars, codecVars, second, e2_bit, remaining, current_addr, elapsed,
                   bus>>

\* for i in range(0, length, bytes_per_line): the next pass up to the loop of
\* read_bytes(addr, chunk_size), or the end of the loop.
DumpNext ==
    /\ pc = "dump_next"
    /\ IF offset < op.length
       THEN LET addr == op.address + offset
                chunk_size == Min(PAGE_SIZE, op.length - offset)
            IN  /\ offset' = offset + PAGE_SIZE
                /\ data' = <<>>
                /\ IF ~ValidateAddress(addr, chunk_size)
                   THEN /\ result' = Raised("RangeError")
                        /\ pc' = "idle"
                        /\ UNCHANGED <<remaining, current_addr>>
                   ELSE /\ remaining' = chunk_size
                        /\ current_addr' = addr
                        /\ pc' = "rd_set"
                        /\ UNCHANGED result
       ELSE /\ pc' = "idle"
            /\ result' = Returned(<<>>)
            /\ UNCHANGED <<offset, data, remaining, current_addr>>
    /\ UNCHANGED <<devVars, codecVars, second, e2_bit, op, prev, elapsed, bus, chunks,
                   snap, nops>>

(***************************************************************************)
(* The storage driver and the device                                       *)
(***************************************************************************)
CodecOff ==
    /\ cfg = <<>>
    /\ packed = <<>>
    /\ restored = <<>>
    /\ cpc = "off"
    /\ cut = 0
    /\ repacked = <<>>

Init ==
    /\ e2_bit \in {0, 1}
    /\ devE2 \in {0, 1}
    /\ mem = InitialMem
    /\ devptr = 0
    /\ devbusy = 0
    /\ devstuck = FALSE
    /\ faults = 0
    /\ pc = "new"
    /\ op = NoOp
    /\ result = NoResult
    /\ prev = NoPrev
    /\ offset = 0
    /\ remaining = 0
    /\ current_addr = 0
    /\ data = <<>>
    /\ elapsed = 0
    /\ bus = NoBus
    /\ chunks = <<>>
    /\ snap = InitialMem
    /\ nops = 0
    /\ second = NoCaller
    /\ CodecOff

Next ==
    \/ Construct
    \/ \E r \in RangeSet : ReadBytes(r[1], r[2])
    \/ ReadSetAddress
    \/ ReadData
    \/ \E r \in RangeSet : WriteBytes(r[1], Pattern(r[2]))
    \/ WriteChunk
    \/ WaitWriteComplete
    \/ \E page_number \in PageSet : ErasePage(page_number)

Spec == Init /\ [][Next]_vars

\* The driver erasing the whole memory.
NextEraseAll ==
    \/ Construct
    \/ EraseAll
    \/ EraseAllNext
    \/ WriteChunk
    \/ WaitWriteComplete

SpecEraseAll == Init /\ [][NextEraseAll]_vars

\* Every storage operation that checks its arguments, called with arguments
\* on both sides of the bounds.
BoundsSet == {<<-1, 10>>, <<0, 16>>, <<1014, 10>>, <<1014, 20>>, <<1024, 0>>}
ByteSet == {<<-1, 7>>, <<0, 7>>, <<1023, 255>>, <<1023, 256>>, <<1024, 7>>}
DumpSet == BoundsSet \cup {<<1008, DumpLength(1008)>>, <<1030, DumpLength(1030)>>}
NextBounds ==
    \/ Construct
    \/ \E r \in BoundsSet : ReadBytes(r[1], r[2])
    \/ ReadSetAddress
    \/ ReadData
    \/ \E r \in BoundsSet : WriteBytes(r[1], Pattern(r[2]))
    \/ WriteChunk
    \/ WaitWriteComplete
    \/ \E r \in ByteSet : WriteByte(r[1], r[2])
    \/ WriteByteSend
    \/ \E page_number \in PageSet : ErasePage(page_number)
    \/ \E r \in DumpSet : DumpHex(r[1], r[2])
    \/ DumpNext
SpecBounds == Init /\ [][NextBounds]_vars

\* Two writes and a read: one call more than MaxOps, over fewer ranges.
MaxDisjointOps == 3
DisjointSet == {<<0, 16>>, <<256, 16>>, <<250, 12>>}
InitDisjoint ==
    /\ e2_bit \in {0, 1}
    /\ devE2 \in {0, 1}
    /\ mem = InitialMem
    /\ devptr = 0
    /\ devbusy = 0
    /\ devstuck = FALSE
    /\ faults = 0
    /\ pc = "new"
    /\ op = NoOp
    /\ result = NoResult
    /\ prev = NoPrev
    /\ offset = 0
    /\ remaining = 0
    /\ current_addr = 0
    /\ data = <<>>
    /\ elapsed = 0
    /\ bus = NoBus
    /\ chunks = <<>>
    /\ snap = InitialMem
    /\ nops = MaxOps - MaxDisjointOps
    /\ second = NoCaller
    /\ CodecOff
NextDisjoint ==
    \/ Construct
    \/ \E r \in DisjointSet : ReadBytes(r[1], r[2])
    \/ ReadSetAddress
    \/ ReadData
    \/ \E r \in DisjointSet : WriteBytes(r[1], Pattern(r[2]))
    \/ \E r \in DisjointSet : WriteBytes(r[1], OtherPattern(r[2]))
    \/ WriteChunk
    \/ WaitWriteComplete
SpecDisjoint == InitDisjoint /\ [][NextDisjoint]_vars

\* Writes alone, for termination. The driver is synchronous: once called,
\* write_bytes keeps executing, so its steps are taken as long as they are
\* enabled; when the caller calls is left open.
LiveRangeSet == {<<0, 0>>, <<0, 16>>, <<10, 20>>, <<1014, 20>>}
NextLive ==
    \/ Construct
    \/ \E r \in LiveRangeSet : WriteBytes(r[1], Pattern(r[2]))
    \/ WriteChunk
    \/ WaitWriteComplete
SpecLive ==
    /\ Init
    /\ [][NextLive]_vars
    /\ WF_vars(WriteChunk)
    /\ WF_vars(WaitWriteComplete)

\* Two threads reading through one instance.
ConcurrentRangeSet == {<<-1, 10>>, <<0, 0>>, <<0, 16>>, <<252, 10>>}
NextConcurrent ==
    \/ Construct
    \/ \E r \in ConcurrentRangeSet : ReadBytes(r[1], r[2])
    \/ ReadSetAddress
    \/ ReadData
    \/ \E r \in ConcurrentRangeSet : SecondReadBytes(r[1], r[2])
    \/ SecondReadSetAddress
    \/ SecondReadData
SpecConcurrent == Init /\ [][NextConcurrent]_vars

(***************************************************************************)
(* Properties of the storage driver                                        *)
(***************************************************************************)
Completed(kind) == op.kind = kind /\ pc = "idle" /\ result.status = "ok"
PrevCompleted(kind) == prev.op.kind = kind /\ prev.result.status = "ok"
IsProbe(tx) == tx.kind = "write" /\ tx.bytes = <<>>
BlockOf(address) == address \div BLOCK_SIZE
PageOf(address) == address \div PAGE_SIZE

RECURSIVE ChunkBytes(_)
ChunkBytes(cs) ==
    IF cs = <<>> THEN <<>> ELSE ChunkBytes(SubSeq(cs, 1, Len(cs) - 1)) \o cs[Len(cs)].bytes

\* C1: a write(A, d) that completes without error followed by read(A, len(d))
\* returns exactly d, whatever page or block boundaries the range crosses.
C1_ReadBackReturnsWritten ==
    (/\ PrevCompleted("write")
     /\ Completed("read")
     /\ op.address = prev.op.address
     /\ op.length = prev.op.length)
    => result.value = prev.op.data

\* C4 as claimed: for A >= 0 and L >= 0, read and write fail with RangeError
\* whenever A + L > memory_size and pass whenever A + L = memory_size,
\* A = memory_size with L = 0 included.
C4_RangeErrorOnlyPastEnd ==
    (op.kind \in {"read", "write"} /\ op.address >= 0 /\ op.length >= 0)
    => /\ op.address + op.length > MEMORY_SIZE => result.status = "RangeError"
       /\ op.address + op.length = MEMORY_SIZE => result.status # "RangeError"

\* C4 as amended: for A >= 0 and L >= 0, read and write fail with RangeError
\* exactly when A >= memory_size or A + L > memory_size (so A = memory_size with
\* L = 0 fails); an operation with A < memory_size and A + L = memory_size passes
\* validation and, when no bus fault occurs, completes without error.
C4_RangeErrorIffOutside ==
    (op.kind \in {"read", "write"} /\ op.address >= 0 /\ op.length >= 0)
    => /\ result.status = "RangeError"
            <=> (op.address >= MEMORY_SIZE \/ op.address + op.length > MEMORY_SIZE)
       /\ (/\ op.address < MEMORY_SIZE
           /\ op.address + op.length = MEMORY_SIZE
           /\ pc = "idle"
           /\ faults = 0) => result.status = "ok"

\* a write ending exactly at the last cell has completed
C4_Witness ==
    /\ Completed("write")
    /\ op.address < MEMORY_SIZE
    /\ op.length > 0
    /\ op.address + op.length = MEMORY_SIZE

\* C5: the device-select code is injective in the 256-byte block of the address
\* and in e2_bit.
C5_SelectCodeInjective ==
    /\ \A a1, a2 \in 0..(MEMORY_SIZE - 1) :
          BlockOf(a1) # BlockOf(a2)
          => GetDeviceAddress(e2_bit, a1) # GetDeviceAddress(e2_bit, a2)
    /\ \A a \in 0..(MEMORY_SIZE - 1) : GetDeviceAddress(0, a) # GetDeviceAddress(1, a)

\* C6: every chunk of a read stays inside one 256-byte block, ends at the next
\* multiple of 256 or at A + L, and its set-address write and its data read are
\* addressed to the select code of the chunk's own block (whose low two bits
\* are bits 8-9 of the chunk's address), with the low 8 address bits as the
\* address byte.
C6_ReadChunksPerBlock ==
    op.kind = "read" =>
    \A i \in 1..Len(chunks) :
        LET c == chunks[i]
            start == IF i = 1 THEN op.address ELSE chunks[i - 1].addr + chunks[i - 1].len
        IN  /\ c.addr = start
            /\ c.len > 0
            /\ c.addr + c.len = Min(op.address + op.length, (BlockOf(c.addr) + 1) * BLOCK_SIZE)
            /\ c.addr_byte = c.addr % BLOCK_SIZE
            /\ c.set_dev = c.dev
            /\ DevBlock(c.dev) = BlockOf(c.addr)
            /\ \A j \in 1..Len(chunks) :
                  BlockOf(chunks[j].addr) # BlockOf(c.addr) => chunks[j].dev # c.dev

\* C7: write(A, d) splits d into chunks aligned to absolute 16-byte page
\* boundaries: the first runs from A to the end of A's page or of d, every later
\* one starts at a multiple of 16, none exceeds 16 bytes or spans two pages, there
\* are as many chunks as pages touched, and the chunks concatenated equal d.
C7_WriteChunksPageAligned ==
    op.kind = "write" =>
    /\ \A i \in 1..Len(chunks) :
          LET c == chunks[i]
          IN  /\ c.len >= 1
              /\ c.len <= PAGE_SIZE
              /\ PageOf(c.addr) = PageOf(c.addr + c.len - 1)
              /\ Len(c.bytes) = c.len
              /\ IF i = 1
                 THEN /\ c.addr = op.address
                      /\ c.len = Min(PAGE_SIZE - (op.address % PAGE_SIZE), op.length)
                 ELSE /\ c.addr % PAGE_SIZE = 0
                      /\ c.addr = chunks[i - 1].addr + chunks[i - 1].len
    /\ Completed("write") =>
          /\ Len(chunks) = IF op.length = 0 THEN 0
                           ELSE PageOf(op.address + op.length - 1) - PageOf(op.address) + 1
          /\ ChunkBytes(chunks) = op.data

\* 20 bytes at address 10: a 6-byte chunk at 10, then a 14-byte chunk at 16
C7_Witness ==
    /\ Completed("write")
    /\ op.address = 10
    /\ op.length = 20
    /\ Len(chunks) = 2
    /\ chunks[1].addr = 10 /\ chunks[1].len = 6
    /\ chunks[2].addr = 16 /\ chunks[2].len = 14

\* C8: after a chunk is transmitted the driver issues only zero-length probes
\* to that chunk's select code; it leaves the wait only on an acknowledged probe
\* or, with none acknowledged before the timeout, with WriteTimeoutError; no
\* further chunk is transmitted before a probe for the last one was acknowledged.
C8_AckPollingBetweenChunks ==
    [][ /\ pc = "wr_poll" =>
            /\ PollAgain(elapsed)
            /\ IsProbe(bus')
            /\ bus'.dev = chunks[Len(chunks)].dev
            /\ chunks' = chunks
            /\ mem' = mem
            /\ pc' = "wr_poll" => ~bus'.ack
            /\ pc' # "wr_poll" =>
                  \/ bus'.ack /\ result'.status \in {"pending", "ok"}
                  \/ /\ ~bus'.ack
                     /\ elapsed' = MAX_WRITE_TIME_MS * 3
                     /\ result'.status = "WriteTimeoutError"
        /\ (Len(chunks') > Len(chunks) /\ Len(chunks) > 0 /\ op.kind \in {"write", "erase"}) =>
            /\ IsProbe(bus)
            /\ bus.ack
            /\ bus.dev = chunks[Len(chunks)].dev
      ]_vars

\* the second chunk of a write is being polled after a probe went unanswered
C8_Witness ==
    /\ pc = "wr_poll"
    /\ op.kind = "write"
    /\ Len(chunks) >= 2
    /\ elapsed >= 1
    /\ IsProbe(bus)
    /\ ~bus.ack

\* C9: an erase_page(p) that completes without error leaves the bytes of every
\* other page unchanged, and a following read(p*16, 16) returns 16 bytes 0xFF.
C9_ErasePageOnlyThatPage ==
    /\ Completed("erase") =>
          \A c \in 0..(MEMORY_SIZE - 1) : PageOf(c) # op.page => Cell(mem, c) = Cell(snap, c)
    /\ (/\ PrevCompleted("erase")
        /\ Completed("read")
        /\ op.address = prev.op.page * PAGE_SIZE
        /\ op.length = PAGE_SIZE)
       => result.value = [i \in 1..PAGE_SIZE |-> ERASED]

(***************************************************************************)
(* The binary configuration codec (config_serializer.py)                   *)
(*                                                                         *)
(* A text is a sequence of Unicode code points; a byte string a sequence   *)
(* of 0..255.  A fixed-point source value is a number of millionths, an    *)
(* adc_hardware_gain a number of GainUnit-ths.  An outcome is              *)
(* [err |-> "", ...] or [err |-> <the exception>, ...].                    *)
(***************************************************************************)
Digits == "0123456789"
Upper == "ABCDEFGHIJKLMNOPQRSTUVWXYZ"
Lower == "abcdefghijklmnopqrstuvwxyz"
Punct == " -./_"
PunctCodes == <<32, 45, 46, 47, 95>>
Has(s, ch) == \E i \in 1..Len(s) : SubSeq(s, i, i) = ch
PosIn(s, ch) == CHOOSE i \in 1..Len(s) : SubSeq(s, i, i) = ch
CodePoint(ch) ==
    IF Has(Digits, ch) THEN 47 + PosIn(Digits, ch)
    ELSE IF Has(Upper, ch) THEN 64 + PosIn(Upper, ch)
    ELSE IF Has(Lower, ch) THEN 96 + PosIn(Lower, ch)
    ELSE PunctCodes[PosIn(Punct, ch)]
\* The text written as the literal s.
Text(s) == [i \in 1..Len(s) |-> CodePoint(SubSeq(s, i, i))]
\* n times the code point c.
Rep(c, n) == [i \in 1..n |-> c]

RECURSIVE Pow2(_)
Pow2(n) == IF n = 0 THEN 1 ELSE 2 * Pow2(n - 1)
RECURSIVE BitLen(_)
BitLen(n) == IF n = 0 THEN 0 ELSE 1 + BitLen(n \div 2)

\* str.encode("utf-8")
Utf8Char(cp) ==
    IF cp < 128 THEN <<cp>>
    ELSE IF cp < 2048 THEN <<192 + (cp \div 64), 128 + (cp % 64)>>
    ELSE IF cp < 65536
         THEN <<224 + (cp \div 4096), 128 + ((cp \div 64) % 64), 128 + (cp % 64)>>
    ELSE <<240 + (cp \div 262144), 128 + ((cp \div 4096) % 64),
           128 + ((cp \div 64) % 64), 128 + (cp % 64)>>

\* The encoding of the characters lo..hi of s, by halves.
RECURSIVE Utf8EncodeRange(_, _, _)
Utf8EncodeRange(s, lo, hi) ==
    IF lo > hi THEN <<>>
    ELSE IF lo = hi THEN Utf8Char(s[lo])
    ELSE LET mid == (lo + hi) \div 2
         IN  Utf8EncodeRange(s, lo, mid) \o Utf8EncodeRange(s, mid + 1, hi)
Utf8Encode(s) == Utf8EncodeRange(s, 1, Len(s))

\* bytes.decode("utf-8"): strict; ok = FALSE stands for UnicodeDecodeError.
\* The bytes i..hi are decoded character by character.
IsContinuation(byte) == byte >= 128 /\ byte < 192
RECURSIVE Utf8DecodeFrom(_, _, _)
Utf8DecodeFrom(b, i, hi) ==
    IF i > hi THEN [ok |-> TRUE, text |-> <<>>]
    ELSE LET lead == b[i]
             n == IF lead < 128 THEN 1
                  ELSE IF lead >= 194 /\ lead < 224 THEN 2
                  ELSE IF lead >= 224 /\ lead < 240 THEN 3
                  ELSE IF lead >= 240 /\ lead < 245 THEN 4
                  ELSE 0
             cont(k) == b[i + k] % 64
             cp == IF n = 1 THEN lead
                   ELSE IF n = 2 THEN (lead - 192) * 64 + cont(1)
                   ELSE IF n = 3 THEN (lead - 224) * 4096 + cont(1) * 64 + cont(2)
                   ELSE (lead - 240) * 262144 + cont(1) * 4096 + cont(2) * 64 + cont(3)
             wellFormed ==
                 /\ n > 0
                 /\ i + n - 1 <= hi
                 /\ \A k \in 1..(n - 1) : IsContinuation(b[i + k])
                 /\ n = 3 => cp >= 2048 /\ ~(cp >= 55296 /\ cp < 57344)
                 /\ n = 4 => cp >= 65536 /\ cp < 1114112
         IN  IF ~wellFormed THEN [ok |-> FALSE, text |-> <<>>]
             ELSE LET rest == Utf8DecodeFrom(b, i + n, hi)
                  IN  [ok |-> rest.ok, text |-> <<cp>> \o rest.text]
\* A long run of bytes is decoded by halves: a character starts at a byte
\* that is not a continuation byte, and four continuation bytes in a row
\* belong to no character.
RECURSIVE Utf8DecodeRange(_, _, _)
Utf8DecodeRange(b, lo, hi) ==
    IF hi - lo < 8 THEN Utf8DecodeFrom(b, lo, hi)
    ELSE LET half == (lo + hi) \div 2
             starts == {j \in half..(half + 3) : ~IsContinuation(b[j])}
             mid == CHOOSE j \in starts : \A k \in starts : j <= k
             left == Utf8DecodeRange(b, lo, mid - 1)
             right == Utf8DecodeRange(b, mid, hi)
         IN  IF starts = {} THEN [ok |-> FALSE, text |-> <<>>]
             ELSE [ok |-> left.ok /\ right.ok,
                   text |-> IF left.ok /\ right.ok THEN left.text \o right.text ELSE <<>>]
Utf8Decode(b) == Utf8DecodeRange(b, 1, Len(b))

\* The value of the code point c as a digit of the base, or -1.
DigitValue(c, base) ==
    LET v == IF c >= 48 /\ c <= 57 THEN c - 48
             ELSE IF c >= 97 /\ c <= 102 THEN c - 87
             ELSE IF c >= 65 /\ c <= 70 THEN c - 55
             ELSE -1
    IN  IF v >= 0 /\ v < base THEN v ELSE -1

RECURSIVE ParseDigits(_, _, _, _)
ParseDigits(s, i, base, acc) ==
    IF i > Len(s) THEN acc
    ELSE IF DigitValue(s[i], base) < 0 THEN -1
    ELSE ParseDigits(s, i + 1, base, acc * base + DigitValue(s[i], base))

\* int(s, base) for base 2, 10 and 16 (int(s) is base 10): the literal may
\* carry the prefix of its base; -1 stands for ValueError.  Signs, blanks and
\* underscores are not modelled.
ParseInt(s, base) ==
    LET prefixed == /\ Len(s) >= 2
                    /\ s[1] = 48
                    /\ \/ base = 16 /\ s[2] \in {120, 88}
                       \/ base = 2 /\ s[2] \in {98, 66}
        first == IF prefixed THEN 3 ELSE 1
    IN  IF first > Len(s) THEN -1 ELSE ParseDigits(s, first, base, 0)

RECURSIVE Render(_, _)
Render(n, base) ==
    LET d == n % base
        c == IF d < 10 THEN 48 + d ELSE 87 + d
    IN  IF n < base THEN <<c>> ELSE Append(Render(n \div base, base), c)
\* str(n)
DecStr(n) == Render(n, 10)
HexStr_Upper(n) ==
    LET digits == Render(n, 16)
    IN  <<48, 120>> \o [i \in 1..Len(digits) |->
                           IF digits[i] >= 97 THEN digits[i] - 32 ELSE digits[i]]
\* hex(n)
HexStr(n) == <<48, 120>> \o Render(n, 16)
\* "0b" + "{:08b}".format(n)
Bin8Str(n) ==
    LET bits == Render(n, 2)
    IN  <<48, 98>> \o Rep(48, IF Len(bits) < 8 THEN 8 - Len(bits) ELSE 0) \o bits

(***************************************************************************)
(* struct.pack / struct.unpack_from                                        *)
(***************************************************************************)
Ok(bytes) == [err |-> "", bytes |-> bytes]
Err(error) == [err |-> error, bytes |-> <<>>]

\* One struct.pack call over integer arguments of the given widths (1: "B",
\* 2: ">H").  An argument of -1 is an int(...) that raised ValueError while
\* the arguments were evaluated; an argument outside its format's range makes
\* struct.pack raise struct.error.
U16Bytes(v) == <<v \div 256, v % 256>>
RECURSIVE StructBytes(_, _)
StructBytes(args, widths) ==
    IF args = <<>> THEN <<>>
    ELSE (IF Head(widths) = 1 THEN <<Head(args)>> ELSE U16Bytes(Head(args)))
         \o StructBytes(Tail(args), Tail(widths))
StructPack(args, widths) ==
    IF \E i \in 1..Len(args) : args[i] = -1 THEN Err("ValueError")
    ELSE IF \E i \in 1..Len(args) : args[i] < 0 \/ args[i] >= Pow2(8 * widths[i])
         THEN Err("StructError")
    ELSE Ok(StructBytes(args, widths))

\* struct.pack(">f", float(g)) for a gain g >= 0 given in GainUnit-ths: g is
\* rounded to the nearest 32-bit float (24 significant bits, ties to even).
GainUnit == Pow2(28)
F32Round(g) ==
    IF BitLen(g) <= 24 THEN g
    ELSE LET sh == BitLen(g) - 24
             q == g \div Pow2(sh)
             r == g % Pow2(sh)
             half == Pow2(sh - 1)
             up == r > half \/ (r = half /\ q % 2 = 1)
         IN  (IF up THEN q + 1 ELSE q) * Pow2(sh)
F32Bytes(g) ==
    LET n == F32Round(g)
        len == BitLen(n)
        biased == (len - 1) - 28 + 127
        m24 == IF len >= 24 THEN n \div Pow2(len - 24) ELSE n * Pow2(24 - len)
        frac == m24 - Pow2(23)
    IN  IF n = 0 THEN <<0, 0, 0, 0>>
        ELSE <<biased \div 2, (biased % 2) * 128 + (frac \div 65536),
               (frac \div 256) % 256, frac % 256>>
\* struct.unpack_from(">f", ...)[0], in GainUnit-ths (finite values >= 0)
F32Value(b) ==
    LET biased == (b[1] % 128) * 2 + (b[2] \div 128)
        frac == (b[2] % 128) * 65536 + b[3] * 256 + b[4]
        m24 == Pow2(23) + frac
        sh == biased - 127 - 23 + 28
    IN  IF biased = 0 /\ frac = 0 THEN 0
        ELSE IF sh >= 0 THEN m24 * Pow2(sh) ELSE m24 \div Pow2(0 - sh)

\* int(value * 1000) for a value >= 0 given in millionths.  The product is a
\* binary floating-point product: for these thousandths k (all those below
\* 2048) the double nearest to k/1000, times 1000, falls just short of k.
ProductFallsShort(k) ==
    \/ k >= 1001 /\ k <= 1023 /\ k % 2 = 1
    \/ k >= 2002 /\ k <= 2046 /\ k % 4 = 2
FixedPoint(v) ==
    LET k == v \div 1000
    IN  IF v % 1000 = 0 /\ k < 2048 /\ ProductFallsShort(k) THEN k - 1 ELSE k
\* struct.unpack_from(">H", ...)[0] / 1000.0, in millionths
FixedValue(k) == k * 1000

(***************************************************************************)
(* pack_string                                                             *)
(***************************************************************************)
PackString_OffByOne(text) ==
    LET b == Utf8Encode(text)
    IN  IF Len(b) >= 255 THEN Err("EncodingError") ELSE Ok(<<Len(b)>> \o b)

\* ValueError("String too long for 1-byte length prefix") is the EncodingError
PackString(text) ==
    LET b == Utf8Encode(text)
    IN  IF Len(b) > 255 THEN Err("EncodingError") ELSE Ok(<<Len(b)>> \o b)

(***************************************************************************)
(* pack_config                                                             *)
(*                                                                         *)
(* The record is packed as the sequence of its parts, one per `out +=`;    *)
(* a part is [at, kind, text, err, bytes]: the section, index and field it *)
(* comes from, the source text of a length-prefixed field, and what was    *)
(* appended or raised.                                                     *)
(***************************************************************************)
Get(rec, key, default) == IF key \in DOMAIN rec THEN rec[key] ELSE default
Part(at, outcome) ==
    [at |-> at, kind |-> "struct", text |-> <<>>, err |-> outcome.err, bytes |-> outcome.bytes]
TextPart(at, text) ==
    LET outcome == PackString(text)
    IN  [at |-> at, kind |-> "text", text |-> text, err |-> outcome.err,
         bytes |-> outcome.bytes]

PresenceByte(ch) ==
    (IF "measurement_range" \in DOMAIN ch THEN 1 ELSE 0)
    + (IF "adc_hardware_gain" \in DOMAIN ch THEN 2 ELSE 0)
    + (IF "shunt_resistance" \in DOMAIN ch THEN 4 ELSE 0)
    + (IF "adc_offset" \in DOMAIN ch THEN 8 ELSE 0)

PackChannel(ch, i) ==
    LET adc_fields_present == PresenceByte(ch)
    IN  <<TextPart(<<"channels", i, "name">>, ch.name),
          Part(<<"channels", i, "BBBB">>,
               StructPack(<<ParseInt(ch.channel_type, 10), ParseInt(ch.interface_type, 10),
                            ch.channel_number, ch.actions>>, <<1, 1, 1, 1>>)),
          Part(<<"channels", i, "adc_fields_present">>,
               StructPack(<<adc_fields_present>>, <<1>>))>>
        \o (IF BitAnd(adc_fields_present, 1) # 0
            THEN <<Part(<<"channels", i, "measurement_range">>,
                        StructPack(<<ParseInt(ch.measurement_range, 2)>>, <<1>>))>>
            ELSE <<>>)
        \o (IF BitAnd(adc_fields_present, 2) # 0
            THEN <<Part(<<"channels", i, "adc_hardware_gain">>,
                        Ok(F32Bytes(ch.adc_hardware_gain)))>>
            ELSE <<>>)
        \o (IF BitAnd(adc_fields_present, 4) # 0
            THEN <<Part(<<"channels", i, "shunt_resistance">>,
                        StructPack(<<FixedPoint(ch.shunt_resistance)>>, <<2>>))>>
            ELSE <<>>)
        \o (IF BitAnd(adc_fields_present, 8) # 0
            THEN <<Part(<<"channels", i, "adc_offset">>,
                        StructPack(<<FixedPoint(ch.adc_offset)>>, <<2>>))>>
            ELSE <<>>)

RECURSIVE PackChannels(_, _)
PackChannels(channels, i) ==
    IF i > Len(channels) THEN <<>>
    ELSE PackChannel(channels[i], i) \o PackChannels(channels, i + 1)

PinKeys == <<"1", "2", "3", "4", "5", "6", "7", "8">>
PackPins_Unmasked(pins, i) == pins[PinKeys[i + 1]] * 16 + pins[PinKeys[i + 2]]
\* ((pins[str(i+1)] & 0x0F) << 4) | (pins[str(i+2)] & 0x0F)
PackPins(pins, i) ==
    BitOr(BitAnd(pins[PinKeys[i + 1]], 15) * 16, BitAnd(pins[PinKeys[i + 2]], 15))

RECURSIVE PackAddrs(_, _)
PackAddrs(addrs, i) ==
    IF i > Len(addrs) THEN <<>>
    ELSE <<Part(<<"hardware", i, "adc_i2c_addrs">>,
                StructPack(<<ParseInt(addrs[i], 16)>>, <<1>>))>>
         \o PackAddrs(addrs, i + 1)

StatusInterval_Wrapped(v) == v % 256
\* min(cfg["status_update_interval_s"], 255)
StatusInterval(v) == Min(v, 255)

Parts(c) ==
    LET mqtt == c.mqtt
        hw == c.hardware
        adc_addrs == Get(hw, "adc_i2c_addrs", <<>>)
    IN  <<TextPart(<<"module_type", 0, "">>, c.module_type),
          TextPart(<<"mezzanine_type", 0, "">>, c.mezzanine_type),
          Part(<<"channels", 0, "count">>, StructPack(<<Len(c.channels)>>, <<1>>))>>
        \o PackChannels(c.channels, 1)
        \o <<TextPart(<<"network", 0, "wifi_ssid">>, c.network.wifi_ssid),
             TextPart(<<"network", 0, "wifi_password">>, c.network.wifi_password),
             TextPart(<<"mqtt", 0, "broker">>, mqtt.broker),
             Part(<<"mqtt", 0, "port">>, StructPack(<<mqtt.port>>, <<2>>)),
             TextPart(<<"mqtt", 0, "client_id">>, mqtt.client_id),
             TextPart(<<"mqtt", 0, "base_topic">>, mqtt.base_topic),
             TextPart(<<"hardware", 0, "mode">>, hw.mode),
             Part(<<"hardware", 0, "BBBBB">>,
                  StructPack(<<hw.i2c_bus_id, hw.i2c_sda_pin, hw.i2c_scl_pin,
                               ParseInt(hw.i2c_device_addr, 16),
                               ParseInt(hw.eeprom_i2c_addr, 16)>>, <<1, 1, 1, 1, 1>>)),
             Part(<<"hardware", 0, "eeprom_size">>,
                  StructPack(<<Get(hw, "eeprom_size", 0)>>, <<2>>)),
             Part(<<"hardware", 1, "gpio_host_pins">>,
                  StructPack(<<PackPins(hw.gpio_host_pins, 0)>>, <<1>>)),
             Part(<<"hardware", 3, "gpio_host_pins">>,
                  StructPack(<<PackPins(hw.gpio_host_pins, 2)>>, <<1>>)),
             Part(<<"hardware", 5, "gpio_host_pins">>,
                  StructPack(<<PackPins(hw.gpio_host_pins, 4)>>, <<1>>)),
             Part(<<"hardware", 7, "gpio_host_pins">>,
                  StructPack(<<PackPins(hw.gpio_host_pins, 6)>>, <<1>>)),
             Part(<<"hardware", 0, "adc_i2c_addrs">>, StructPack(<<Len(adc_addrs)>>, <<1>>))>>
        \o PackAddrs(adc_addrs, 1)
        \o <<Part(<<"hardware", 0, "adc_sampling_rate">>,
                  StructPack(<<Get(hw, "adc_sampling_rate", 0)>>, <<2>>)),
             Part(<<"pin_config", 0, "status_update_interval_s">>,
                  StructPack(<<ParseInt(c.pin_config, 2),
                               StatusInterval(c.status_update_interval_s)>>,
                             <<1, 1>>))>>

RECURSIVE JoinBytes(_, _)
JoinBytes(parts, i) ==
    IF i > Len(parts) THEN <<>> ELSE parts[i].bytes \o JoinBytes(parts, i + 1)

\* The outcome of pack_config: the bytes returned, or the first exception
\* raised, with the parts appended until then.
PackConfig(c) ==
    LET parts == Parts(c)
        failed == {i \in 1..Len(parts) : parts[i].err # ""}
        first == CHOOSE i \in failed : \A j \in failed : i <= j
    IN  IF failed = {}
        THEN [err |-> "", bytes |-> JoinBytes(parts, 1), parts |-> parts]
        ELSE [err |-> parts[first].err, bytes |-> <<>>,
              parts |-> SubSeq(parts, 1, first - 1)]

(***************************************************************************)
(* unpack_string, unpack_config                                            *)
(*                                                                         *)
(* A read at an offset is [err, val, off]: the exception raised (or ""),   *)
(* the value read and the offset after it.                                 *)
(***************************************************************************)
Got(val, off) == [err |-> "", val |-> val, off |-> off]
Raise(error, off) == [err |-> error, val |-> <<>>, off |-> off]

\* buf[offset]; offset += 1
ReadByte(buf, off) ==
    IF off >= Len(buf) THEN Raise("IndexError", off) ELSE Got(buf[off + 1], off + 1)

\* struct.unpack_from(fmt, buf, offset); offset += size
U16Value(b) == b[1] * 256 + b[2]
FormatSize(fmt) ==
    CASE fmt = "BB" -> 2 [] fmt = "BBBB" -> 4 [] fmt = "BBBBB" -> 5
      [] fmt = ">H" -> 2 [] fmt = ">f" -> 4
UnpackFrom_Padded(fmt, buf, off) ==
    LET size == FormatSize(fmt)
        bytes == [i \in 1..size |-> IF off + i <= Len(buf) THEN buf[off + i] ELSE 0]
    IN  Got(CASE fmt = ">H" -> U16Value(bytes)
              [] fmt = ">f" -> F32Value(bytes)
              [] OTHER -> bytes,
            off + size)
UnpackFrom(fmt, buf, off) ==
    LET size == FormatSize(fmt)
        bytes == SubSeq(buf, off + 1, off + size)
    IN  IF off + size > Len(buf) THEN Raise("StructError", off)
        ELSE Got(CASE fmt = ">H" -> U16Value(bytes)
                   [] fmt = ">f" -> F32Value(bytes)
                   [] OTHER -> bytes,
                 off + size)

\* The slice buf[offset+1:offset+1+length] ends at the end of the buffer
\* when the buffer is shorter.
UnpackString(buf, off) ==
    IF off >= Len(buf) THEN Raise("IndexError", off)
    ELSE LET length == buf[off + 1]
             s == Utf8Decode(SubSeq(buf, off + 2, Min(off + 1 + length, Len(buf))))
         IN  IF ~s.ok THEN Raise("UnicodeDecodeError", off)
             ELSE Got(s.text, off + 1 + length)

\* The reads of unpack_config in their order: r is [err, off, vals], the
\* values read so far under the names of the source, and a read that follows
\* a failed read is that failure, as the exception ends unpack_config.
Field(key, kind) == [key |-> key, kind |-> kind]
Begin(off) == [err |-> "", off |-> off, vals |-> <<>>]

RECURSIVE ReadAll(_, _, _, _)
RECURSIVE UnpackChannels(_, _, _, _)
RECURSIVE UnpackAddrs(_, _, _, _)

Read(buf, r, field) ==
    LET got == CASE field.kind = "string" -> UnpackString(buf, r.off)
                 [] field.kind = "byte" -> ReadByte(buf, r.off)
                 [] field.kind = "channels" ->
                        UnpackChannels(buf, r.off, r.vals.num_channels, <<>>)
                 [] field.kind = "adc_addrs" ->
                        UnpackAddrs(buf, r.off, r.vals.num_adcs, <<>>)
                 [] OTHER -> UnpackFrom(field.kind, buf, r.off)
    IN  IF r.err # "" THEN r
        ELSE IF got.err # "" THEN [err |-> got.err, off |-> got.off, vals |-> r.vals]
        ELSE [err |-> "", off |-> got.off, vals |-> r.vals @@ (field.key :> got.val)]

ReadAll(buf, r, fields, i) ==
    IF i > Len(fields) THEN r ELSE ReadAll(buf, Read(buf, r, fields[i]), fields, i + 1)

ChannelFields ==
    <<Field("name", "string"), Field("head", "BBBB"), Field("adc_fields_present", "byte")>>
AdcFields_IgnoringOffset(adc_fields_present) ==
    (IF BitAnd(adc_fields_present, 1) # 0
     THEN <<Field("measurement_range", "byte")>> ELSE <<>>)
    \o (IF BitAnd(adc_fields_present, 2) # 0 THEN <<Field("gain", ">f")>> ELSE <<>>)
    \o (IF BitAnd(adc_fields_present, 4) # 0 THEN <<Field("shunt", ">H")>> ELSE <<>>)

AdcFields(adc_fields_present) ==
    (IF BitAnd(adc_fields_present, 1) # 0
     THEN <<Field("measurement_range", "byte")>> ELSE <<>>)
    \o (IF BitAnd(adc_fields_present, 2) # 0 THEN <<Field("gain", ">f")>> ELSE <<>>)
    \o (IF BitAnd(adc_fields_present, 4) # 0 THEN <<Field("shunt", ">H")>> ELSE <<>>)
    \o (IF BitAnd(adc_fields_present, 8) # 0 THEN <<Field("offset_val", ">H")>> ELSE <<>>)

Channel(v) ==
    [name |-> v.name,
     channel_type |-> DecStr(v.head[1]),
     interface_type |-> DecStr(v.head[2]),
     channel_number |-> v.head[3],
     actions |-> v.head[4]]
    @@ (IF "measurement_range" \in DOMAIN v
        THEN "measurement_range" :> Bin8Str(v.measurement_range) ELSE <<>>)
    @@ (IF "gain" \in DOMAIN v THEN "adc_hardware_gain" :> v.gain ELSE <<>>)
    @@ (IF "shunt" \in DOMAIN v THEN "shunt_resistance" :> FixedValue(v.shunt) ELSE <<>>)
    @@ (IF "offset_val" \in DOMAIN v THEN "adc_offset" :> FixedValue(v.offset_val) ELSE <<>>)

UnpackChannel(buf, off) ==
    LET head == ReadAll(buf, Begin(off), ChannelFields, 1)
        ch == IF head.err # "" THEN head
              ELSE ReadAll(buf, head, AdcFields(head.vals.adc_fields_present), 1)
    IN  IF ch.err # "" THEN Raise(ch.err, ch.off) ELSE Got(Channel(ch.vals), ch.off)

\* for _ in range(num_channels): ...; cfg["channels"].append(ch)
UnpackChannels(buf, off, n, channels) ==
    IF n = 0 THEN Got(channels, off)
    ELSE LET ch == UnpackChannel(buf, off)
         IN  IF ch.err # "" THEN ch
             ELSE UnpackChannels(buf, ch.off, n - 1, Append(channels, ch.val))

\* for _ in range(num_adcs): addr = buf[offset]; adc_addrs.append(hex(addr))
UnpackAddrs(buf, off, n, adc_addrs) ==
    IF n = 0 THEN Got(adc_addrs, off)
    ELSE LET addr == ReadByte(buf, off)
         IN  IF addr.err # "" THEN addr
             ELSE UnpackAddrs(buf, addr.off, n - 1, Append(adc_addrs, HexStr(addr.val)))

\* gpio[str(i+1)] = (packed >> 4) & 0x0F; gpio[str(i+2)] = packed & 0x0F
UnpackPins(b) ==
    [k \in {PinKeys[i] : i \in 1..8} |->
        LET i == CHOOSE j \in 1..8 : PinKeys[j] = k
            pair == b[(i + 1) \div 2]
        IN  IF i % 2 = 1 THEN BitAnd(pair \div 16, 15) ELSE BitAnd(pair, 15)]

ConfigFields ==
    <<Field("module_type", "string"), Field("mezzanine_type", "string"),
      Field("num_channels", "byte"), Field("channels", "channels"),
      Field("ssid", "string"), Field("pwd", "string"),
      Field("broker", "string"), Field("port", ">H"), Field("client_id", "string"),
      Field("base_topic", "string"),
      Field("mode", "string"), Field("addrs", "BBBBB"), Field("eeprom_size", ">H"),
      Field("gpio1", "byte"), Field("gpio3", "byte"), Field("gpio5", "byte"),
      Field("gpio7", "byte"),
      Field("num_adcs", "byte"), Field("adc_addrs", "adc_addrs"),
      Field("adc_sampling_rate", ">H"), Field("last", "BB")>>

Config(v) ==
    [module_type |-> v.module_type,
     mezzanine_type |-> v.mezzanine_type,
     channels |-> v.channels,
     network |-> [wifi_ssid |-> v.ssid, wifi_password |-> v.pwd],
     mqtt |-> [broker |-> v.broker, port |-> v.port, client_id |-> v.client_id,
               base_topic |-> v.base_topic],
     hardware |-> [mode |-> v.mode,
                   i2c_bus_id |-> v.addrs[1],
                   i2c_sda_pin |-> v.addrs[2],
                   i2c_scl_pin |-> v.addrs[3],
                   i2c_device_addr |-> HexStr(v.addrs[4]),
                   eeprom_i2c_addr |-> HexStr(v.addrs[5]),
                   eeprom_size |-> v.eeprom_size,
                   gpio_host_pins |-> UnpackPins(<<v.gpio1, v.gpio3, v.gpio5, v.gpio7>>),
                   adc_i2c_addrs |-> v.adc_addrs,
                   num_of_adcs |-> v.num_adcs,
                   adc_sampling_rate |-> v.adc_sampling_rate],
     pin_config |-> Bin8Str(v.last[1]),
     status_update_interval_s |-> v.last[2]]

\* The outcome of unpack_config: the record returned and the offset reached,
\* or the exception raised (and then no record).
UnpackConfig(buf) ==
    LET read == ReadAll(buf, Begin(0), ConfigFields, 1)
    IN  IF read.err # "" THEN [err |-> read.err, cfg |-> <<>>, offset |-> read.off]
        ELSE [err |-> "", cfg |-> Config(read.vals), offset |-> read.off]

(***************************************************************************)
(* Configuration records                                                   *)
(*                                                                         *)
(* Texts are sequences of code points, gains are in GainUnit-ths, the      *)
(* fixed-point values in millionths.  The records are those of             *)
(* Debugging/test_eeprom.py with one part changed at a time.               *)
(***************************************************************************)
Digital ==
    [name |-> Text("w"), channel_type |-> Text("1"), interface_type |-> Text("11"),
     channel_number |-> 0, actions |-> 1]
AnalogOptions ==
    [measurement_range |-> Text("0b10000011"), adc_hardware_gain |-> GainUnit \div 4,
     shunt_resistance |-> 249000, adc_offset |-> 0]
AnalogHead ==
    [name |-> Text("e"), channel_type |-> Text("2"), interface_type |-> Text("21"),
     channel_number |-> 1, actions |-> 0]
Analog == AnalogHead @@ AnalogOptions

BaseCfg ==
    [module_type |-> Text("IoTbase PICO"),
     mezzanine_type |-> Text("IoTextra Combo"),
     channels |-> <<Digital, Analog>>,
     network |-> [wifi_ssid |-> Text("example_ssid"),
                  wifi_password |-> Text("example_password")],
     mqtt |-> [broker |-> Text("mqtt.example"), port |-> 1883,
               client_id |-> Text("pico-iotextra-controller-1"),
               base_topic |-> Text("iotextra/device_1")],
     hardware |-> [mode |-> Text("i2c"), i2c_bus_id |-> 0, i2c_sda_pin |-> 20,
                   i2c_scl_pin |-> 21, i2c_device_addr |-> Text("0x3f"),
                   eeprom_i2c_addr |-> Text("0x57"), eeprom_size |-> 1024,
                   num_of_adcs |-> 2, adc_sampling_rate |-> 128,
                   gpio_host_pins |-> [k \in {PinKeys[i] : i \in 1..8} |->
                       LET i == CHOOSE j \in 1..8 : PinKeys[j] = k
                       IN  IF i <= 6 THEN 9 + i ELSE i + 1],
                   adc_i2c_addrs |-> <<Text("0x48"), Text("0x49")>>],
     pin_config |-> Text("0b11110000"),
     status_update_interval_s |-> 30]

Without(rec, key) == [k \in DOMAIN rec \ {key} |-> rec[k]]
Only(rec, keys) == [k \in keys |-> rec[k]]

\* 254, 255 and 256 bytes of UTF-8 in one-, two- and three-byte characters
Texts ==
    {<<>>, Rep(97, 254), Rep(97, 255), Rep(97, 256), Rep(233, 127), Rep(233, 128),
     Rep(8364, 85), Rep(8364, 86), Rep(97, 252) \o <<8364>>, Rep(97, 253) \o <<8364>>}
TextCfgs ==
    UNION {{[BaseCfg EXCEPT !.module_type = t],
            [BaseCfg EXCEPT !.mezzanine_type = t],
            [BaseCfg EXCEPT !.channels[1].name = t],
            [BaseCfg EXCEPT !.channels[2].name = t],
            [BaseCfg EXCEPT !.network.wifi_ssid = t],
            [BaseCfg EXCEPT !.network.wifi_password = t],
            [BaseCfg EXCEPT !.mqtt.broker = t],
            [BaseCfg EXCEPT !.mqtt.client_id = t],
            [BaseCfg EXCEPT !.mqtt.base_topic = t],
            [BaseCfg EXCEPT !.hardware.mode = t]} : t \in Texts}

Decimals == {Text("0"), Text("01"), Text("7"), Text("007"), Text("255"), Text("256"),
             Text("x"), Text("")}
Hexes == {Text("0x4B"), Text("0x4b"), Text("4b"), Text("0X4b"), Text("0x04"), Text("0x0"),
          Text("0xff"), Text("0x100"), Text("0xg1"), Text("0x")}
Binaries == {Text("0b00001111"), Text("0b1111"), Text("00001111"), Text("0B00001111"),
             Text("0b0"), Text("0b111111111"), Text("0b2")}
NumericStringCfgs ==
    UNION {{[BaseCfg EXCEPT !.channels[1].channel_type = t],
            [BaseCfg EXCEPT !.channels[2].interface_type = t]} : t \in Decimals}
    \cup UNION {{[BaseCfg EXCEPT !.hardware.i2c_device_addr = t],
                 [BaseCfg EXCEPT !.hardware.eeprom_i2c_addr = t],
                 [BaseCfg EXCEPT !.hardware.adc_i2c_addrs[2] = t]} : t \in Hexes}
    \cup UNION {{[BaseCfg EXCEPT !.channels[2].measurement_range = t],
                 [BaseCfg EXCEPT !.pin_config = t]} : t \in Binaries}

\* 0, 1, 1/2, 3/4, the gain of config.py to the nearest unit and to the
\* nearest 32-bit float, and the two kinds of tie
Gains == {0, GainUnit, GainUnit \div 2, 3 * (GainUnit \div 4), 63785377, 63785376,
          Pow2(24) + 1, Pow2(24) + 3, Pow2(25) - 1}
\* Thousandths that are exact are below 2048 (ProductFallsShort) or are the
\* ends of the 2-byte range, where the product is exact.
Fixed == {0, 999, 1000, 10000, 100000, 150000, 249500, 249900, 1001000, 1002000,
          1003000, 2002000, 2047999, 65535000, 65535999, 65536000}
AnalogCfgs ==
    {[BaseCfg EXCEPT !.channels[2].adc_hardware_gain = g] : g \in Gains}
    \cup {[BaseCfg EXCEPT !.channels[2].shunt_resistance = v] : v \in Fixed}
    \cup {[BaseCfg EXCEPT !.channels[2].adc_offset = v] : v \in Fixed}
    \cup {[BaseCfg EXCEPT !.channels[2] = AnalogHead @@ Only(AnalogOptions, keys)] :
             keys \in SUBSET DOMAIN AnalogOptions}

ChannelLists ==
    {<<>>, <<Digital>>, <<Analog>>, <<Analog, Digital>>, <<Digital, Analog, Digital>>,
     <<Digital, Analog @@ ("unit" :> Text("mA"))>>,
     <<[Digital EXCEPT !.channel_number = 255], Analog>>,
     <<[Digital EXCEPT !.channel_number = 256], Analog>>,
     <<Digital, [Analog EXCEPT !.actions = 255]>>,
     <<Digital, [Analog EXCEPT !.actions = 256]>>}
HardwareCfgs ==
    {[BaseCfg EXCEPT !.hardware = Without(@, key)] :
        key \in {"eeprom_size", "adc_sampling_rate", "adc_i2c_addrs", "num_of_adcs"}}
    \cup {[BaseCfg EXCEPT !.hardware.num_of_adcs = n] : n \in {0, 3}}
    \cup {[BaseCfg EXCEPT !.hardware.adc_i2c_addrs = a] :
             a \in {<<>>, <<Text("0x48")>>, <<Text("0x49"), Text("0x48")>>}}
    \cup {[BaseCfg EXCEPT !.hardware.gpio_host_pins[k] = v] :
             k \in {"1", "2", "7", "8"}, v \in {0, 15, 16, 18, 19, 255}}
    \cup {[BaseCfg EXCEPT !.hardware.eeprom_size = n] : n \in {0, 255, 256, 65535, 65536}}
    \cup {[BaseCfg EXCEPT !.hardware.adc_sampling_rate = n] : n \in {0, 860, 65536}}
    \cup {[BaseCfg EXCEPT !.hardware.i2c_sda_pin = n] : n \in {0, 255, 256}}
    \cup {[BaseCfg EXCEPT !.mqtt.port = n] : n \in {0, 8883, 65535, 65536}}
    \cup {[BaseCfg EXCEPT !.status_update_interval_s = n] : n \in {0, 254, 255, 256, 300, 3600}}

CfgSet ==
    {BaseCfg} \cup TextCfgs \cup NumericStringCfgs \cup AnalogCfgs
    \cup {[BaseCfg EXCEPT !.channels = c] : c \in ChannelLists} \cup HardwareCfgs

(***************************************************************************)
(* The codec: a record is packed, and the bytes packed are unpacked        *)
(***************************************************************************)
DriverOff ==
    /\ e2_bit = 0
    /\ devE2 = 0
    /\ mem = <<>>
    /\ devptr = 0
    /\ devbusy = 0
    /\ devstuck = FALSE
    /\ faults = 0
    /\ pc = "off"
    /\ op = NoOp
    /\ result = NoResult
    /\ prev = NoPrev
    /\ offset = 0
    /\ remaining = 0
    /\ current_addr = 0
    /\ data = <<>>
    /\ elapsed = 0
    /\ bus = NoBus
    /\ chunks = <<>>
    /\ snap = <<>>
    /\ nops = 0
    /\ second = NoCaller

InitCodec ==
    /\ DriverOff
    /\ cfg \in CfgSet
    /\ packed = <<>>
    /\ restored = <<>>
    /\ cpc = "start"
    /\ cut = 0
    /\ repacked = <<>>

\* packed = pack_config(cfg)
Pack ==
    /\ cpc = "start"
    /\ packed' = PackConfig(cfg)
    /\ cpc' = "packed"
    /\ UNCHANGED <<cfg, restored, cut, repacked, devVars, drvVars>>

\* restored = unpack_config(packed)
Unpack ==
    /\ cpc = "packed"
    /\ packed.err = ""
    /\ restored' = UnpackConfig(packed.bytes)
    /\ cut' = Len(packed.bytes)
    /\ cpc' = "unpacked"
    /\ UNCHANGED <<cfg, packed, repacked, devVars, drvVars>>

NextCodec ==
    \/ Pack
    \/ Unpack

SpecCodec == InitCodec /\ [][NextCodec]_vars

(***************************************************************************)
(* The record restored is packed again                                     *)
(***************************************************************************)
\* The records of CfgSet, and fixed-point values that are stored as 1001 and
\* 1003 thousandths.
RepackCfgs ==
    CfgSet
    \cup {[BaseCfg EXCEPT !.channels[2].shunt_resistance = 1001500],
          [BaseCfg EXCEPT !.channels[2].adc_offset = 1003500]}
InitRepack ==
    /\ DriverOff
    /\ cfg \in RepackCfgs
    /\ packed = <<>>
    /\ restored = <<>>
    /\ cpc = "start"
    /\ cut = 0
    /\ repacked = <<>>

\* pack_config(unpack_config(packed))
Repack ==
    /\ cpc = "unpacked"
    /\ restored.err = ""
    /\ repacked' = PackConfig(restored.cfg)
    /\ cpc' = "repacked"
    /\ UNCHANGED <<cfg, packed, restored, cut, devVars, drvVars>>

NextRepack ==
    \/ Pack
    \/ Unpack
    \/ Repack
SpecRepack == InitRepack /\ [][NextRepack]_vars

(***************************************************************************)
(* The codec on truncated streams: the bytes packed are cut short before   *)
(* they are unpacked                                                       *)
(***************************************************************************)
\* Records with texts of one-, two- and three-byte characters and empty
\* texts, with no channel and no ADC address, and with every combination of
\* the optional channel fields.
TruncatedCfgs ==
    {BaseCfg,
     [BaseCfg EXCEPT !.module_type = <<8364, 233, 97>>],
     [BaseCfg EXCEPT !.channels[1].name = <<233, 233>>],
     [BaseCfg EXCEPT !.network.wifi_ssid = <<>>],
     [BaseCfg EXCEPT !.hardware.mode = <<8364>>],
     [BaseCfg EXCEPT !.channels = <<>>],
     [BaseCfg EXCEPT !.hardware.adc_i2c_addrs = <<>>, !.hardware.num_of_adcs = 0]}
    \cup {[BaseCfg EXCEPT !.channels[2] = AnalogHead @@ Only(AnalogOptions, keys)] :
             keys \in SUBSET DOMAIN AnalogOptions}

InitTruncated ==
    /\ DriverOff
    /\ cfg \in TruncatedCfgs
    /\ packed = <<>>
    /\ restored = <<>>
    /\ cpc = "start"
    /\ cut = 0
    /\ repacked = <<>>

\* The lengths of the strict prefixes of the stream packed.
Cuts == IF cpc = "packed" /\ packed.err = "" THEN 0..(Len(packed.bytes) - 1) ELSE {}

\* restored = unpack_config(packed[:n]) for a strict prefix of the stream
Truncate(n) ==
    /\ cpc = "packed"
    /\ packed.err = ""
    /\ n < Len(packed.bytes)
    /\ restored' = UnpackConfig(SubSeq(packed.bytes, 1, n))
    /\ cut' = n
    /\ cpc' = "truncated"
    /\ UNCHANGED <<cfg, packed, repacked, devVars, drvVars>>

NextTruncated ==
    \/ Pack
    \/ Unpack
    \/ \E n \in Cuts : Truncate(n)

SpecTruncated == InitTruncated /\ [][NextTruncated]_vars

\* What read_bytes(q * PAGE_SIZE, PAGE_SIZE) returns from the cells m.
PageRead(m, q) ==
    LET dsc == GetDeviceAddress(e2_bit, q * PAGE_SIZE)
        addr_byte == BitAnd(q * PAGE_SIZE, 255)
    IN  [i \in 1..PAGE_SIZE |->
            Cell(m, DevBlock(dsc) * BLOCK_SIZE + ((addr_byte + i - 1) % BLOCK_SIZE))]

\* C12: constructing the driver issues one zero-length transaction to the
\* device; when it is not acknowledged the construction fails with
\* DeviceNotFoundError and there is no driver (nothing happens afterwards);
\* when it is acknowledged the construction succeeds.
C12_ConstructionProbesDevice ==
    [][/\ pc = "new" =>
              /\ IsProbe(bus')
              /\ bus'.dev = GetDeviceAddress(e2_bit, 0)
              /\ bus'.ack = DevAcks(bus'.dev)
              /\ bus'.ack => pc' = "idle" /\ result'.status = "none"
              /\ ~bus'.ack => pc' = "absent" /\ result'.status = "DeviceNotFoundError"
       /\ pc # "absent"]_vars

C12_Witness ==
    /\ pc = "absent"
    /\ IsProbe(bus)
    /\ ~bus.ack
    /\ result.status = "DeviceNotFoundError"
    /\ nops = 0

\* The cells m after the chunks i.. of cs that the device acknowledged (a page
\* write changes cells of one page only).
RECURSIVE ApplyChunks(_, _, _)
ApplyChunks(m, cs, i) ==
    IF i > Len(cs) THEN m
    ELSE LET page == DevWriteCell(cs[i].dev, cs[i].addr_byte, 0) \div PAGE_SIZE + 1
             after == DevPageWriteOn(m, cs[i].dev, cs[i].addr_byte, cs[i].bytes)
         IN  ApplyChunks(IF cs[i].ack THEN [m EXCEPT ![page] = after[page]] ELSE m,
                         cs, i + 1)
RECURSIVE SumLen(_, _)
SumLen(cs, n) == IF n = 0 THEN 0 ELSE SumLen(cs, n - 1) + cs[n].len

\* C15: erase_all erases the pages in ascending order 0, 1, ..., 63 and stops
\* at the first failure: when the erase of page p fails, every page q < p
\* reads back as all 0xFF, no transaction was issued for a page q > p, and
\* those later pages keep their previous contents.
C15_EraseAllStopsAtFirstFailure ==
    op.kind = "erase_all" =>
        /\ \A i \in 1..Len(chunks) :
              chunks[i].addr = (i - 1) * PAGE_SIZE /\ chunks[i].len = PAGE_SIZE
        /\ Len(chunks) <= op.page + 1
        /\ (pc = "idle" /\ result.status # "ok") =>
              /\ \A q \in 0..(op.page - 1) :
                    PageRead(mem, q) = [i \in 1..PAGE_SIZE |-> ERASED]
              /\ \A q \in (op.page + 1)..(MEMORY_SIZE \div PAGE_SIZE - 1) :
                    PageRead(mem, q) = PageRead(snap, q)

\* C16: a write that fails at chunk k (bus error on its transmission, or a
\* timeout while polling after it) is not rolled back: the chunks 1..k-1 were
\* acknowledged and stay written in the device, chunk k is the last chunk
\* transmitted, and the error is what the caller gets; a write reports success
\* only when every chunk was written.
C16_FailedWriteNotRolledBack ==
    (op.kind = "write" /\ pc = "idle" /\ result.status # "RangeError") =>
        LET k == Len(chunks)
        IN  /\ result.status = "ok" =>
                  /\ offset = Len(op.data)
                  /\ \A i \in 1..k : chunks[i].ack
                  /\ ChunkBytes(chunks) = op.data
            /\ result.status # "ok" =>
                  /\ result.status \in {"BusError", "WriteTimeoutError"}
                  /\ k >= 1
                  /\ \A i \in 1..(k - 1) : chunks[i].ack
                  /\ chunks[k].ack = (result.status = "WriteTimeoutError")
                  /\ offset = SumLen(chunks, k - 1)
                  /\ offset < Len(op.data)
                  /\ chunks[k].addr = op.address + offset
                  /\ mem = ApplyChunks(snap, chunks, 1)

C16_Witness ==
    /\ op.kind = "write"
    /\ pc = "idle"
    /\ result.status = "BusError"
    /\ Len(chunks) = 2
    /\ chunks[1].ack
    /\ ~chunks[2].ack
    /\ mem # snap
    /\ mem = ApplyChunks(snap, chunks, 1)

\* C17: a read(A, L) that passes validation issues, chunk after chunk in
\* ascending address order, one set-address write (the low address byte alone)
\* immediately followed by one read of the chunk's length; the chunk results
\* are concatenated in that order and the value returned has exactly L bytes,
\* the sum of the chunk lengths.
C17_ReadStep ==
    (op.kind = "read" /\ op' = op) =>
        /\ pc = "rd_set" =>
              /\ bus'.kind = "write"
              /\ bus'.dev = GetDeviceAddress(e2_bit, current_addr)
              /\ bus'.bytes = <<current_addr % BLOCK_SIZE>>
              /\ chunks' = chunks
              /\ data' = data
              /\ pc' = IF bus'.ack THEN "rd_data" ELSE "idle"
              /\ ~bus'.ack => result'.status = "BusError"
        /\ pc = "rd_data" =>
              /\ bus.kind = "write" /\ bus.ack
              /\ bus'.kind = "read"
              /\ bus'.dev = bus.dev
              /\ ~bus'.ack => pc' = "idle" /\ result'.status = "BusError"
              /\ bus'.ack =>
                    /\ Len(chunks') = Len(chunks) + 1
                    /\ SubSeq(chunks', 1, Len(chunks)) = chunks
                    /\ LET last == chunks'[Len(chunks')]
                       IN  /\ last.addr = current_addr
                           /\ last.len >= 1
                           /\ last.len = bus'.n
                           /\ Len(last.bytes) = last.len
                           /\ data' = data \o last.bytes
                           /\ current_addr' = current_addr + last.len
                    /\ pc' = IF current_addr' < op.address + op.length
                             THEN "rd_set" ELSE "idle"
        /\ (pc' = "idle" /\ result'.status = "ok") =>
              /\ result'.value = data'
              /\ data' = ChunkBytes(chunks')
              /\ Len(result'.value) = op.length
              /\ SumLen(chunks', Len(chunks')) = op.length
              /\ \A i \in 1..Len(chunks') :
                    chunks'[i].addr = op.address + SumLen(chunks', i - 1)
C17_ReadChunkTransactions == [][C17_ReadStep]_vars

C17_Witness ==
    /\ Completed("read")
    /\ Len(chunks) = 2
    /\ bus.kind = "read"
    /\ Len(result.value) = op.length
    /\ result.value = chunks[1].bytes \o chunks[2].bytes

\* What read_bytes(address, length) returns from the cells m when nothing else
\* uses the bus.
ReadAlone(m, address, length) ==
    [i \in 1..length |->
        LET a == address + i - 1
        IN  Cell(m, DevBlock(GetDeviceAddress(e2_bit, a)) * BLOCK_SIZE + (a % BLOCK_SIZE))]

\* C18: with two callers on one instance the bus transactions of one
\* operation are not separated by a transaction of the other caller: the
\* transaction before a chunk's data read is that chunk's own set-address
\* write (the device's address counter is where the chunk begins), and a read
\* returns what it returns when it has the bus alone.
C18_TransactionsNotInterleaved ==
    /\ pc = "rd_data" =>
          /\ bus = WriteTo(GetDeviceAddress(e2_bit, current_addr),
                           <<current_addr % BLOCK_SIZE>>, TRUE)
          /\ devptr = current_addr % BLOCK_SIZE
    /\ second.pc = "rd_data" =>
          /\ bus = WriteTo(GetDeviceAddress(e2_bit, second.current_addr),
                           <<second.current_addr % BLOCK_SIZE>>, TRUE)
          /\ devptr = second.current_addr % BLOCK_SIZE
    /\ Completed("read") => result.value = ReadAlone(mem, op.address, op.length)
    /\ (second.pc = "idle" /\ second.result.status = "ok") =>
          second.result.value = ReadAlone(mem, second.op.address, second.op.length)

InWrite == pc \in {"wr_chunk", "wr_poll"}

\* C19: every write terminates. The polling after a chunk lasts less than
\* 3 * MAX_WRITE_TIME_MS milliseconds, one millisecond per failed probe;
\* against a device that never acknowledges it ends with WriteTimeoutError,
\* and when the device acknowledges again within the timeout and the bus does
\* not fail the write completes.
C19_WriteTerminates ==
    /\ [](pc = "wr_poll" => elapsed < MAX_WRITE_TIME_MS * 3)
    /\ InWrite ~> (pc = "idle")
    /\ (pc = "wr_poll" /\ devstuck) ~>
          (pc = "idle" /\ result.status = "WriteTimeoutError")
    /\ (InWrite /\ DevSelected(GetDeviceAddress(e2_bit, 0)) /\ ~devstuck
           /\ faults = MaxFaults) ~>
          (pc = "idle" /\ result.status = "ok")

C19_Witness ==
    /\ op.kind = "write"
    /\ pc = "idle"
    /\ result.status = "WriteTimeoutError"
    /\ devstuck
    /\ elapsed = MAX_WRITE_TIME_MS * 3
    /\ IsProbe(bus)
    /\ ~bus.ack

(***************************************************************************)
(* Properties of the codec                                                 *)
(***************************************************************************)
FixedPointKeys == {"shunt_resistance", "adc_offset"}
OptionalKeys == {"measurement_range", "adc_hardware_gain"} \cup FixedPointKeys
ChannelKeys == {"name", "channel_type", "interface_type", "channel_number", "actions"}
HardwareKeys ==
    {"mode", "i2c_bus_id", "i2c_sda_pin", "i2c_scl_pin", "i2c_device_addr",
     "eeprom_i2c_addr", "eeprom_size", "gpio_host_pins", "adc_i2c_addrs", "num_of_adcs",
     "adc_sampling_rate"}

\* The record without the values of the fixed-point fields (their keys stay).
ExceptFixedPoint(c) ==
    [c EXCEPT !.channels =
        [i \in 1..Len(c.channels) |->
            [k \in DOMAIN c.channels[i] |->
                IF k \in FixedPointKeys THEN 0 ELSE c.channels[i][k]]]]
RoundTrips == restored.err = "" /\ ExceptFixedPoint(restored.cfg) = ExceptFixedPoint(cfg)

\* The textual forms unpack_config writes: str(n), hex(n), "0b" + 8 bits
IsDecimal(s) ==
    /\ Len(s) >= 1
    /\ \A i \in 1..Len(s) : s[i] >= 48 /\ s[i] <= 57
    /\ Len(s) > 1 => s[1] # 48
IsLowerHex(s) ==
    /\ Len(s) >= 3
    /\ s[1] = 48 /\ s[2] = 120
    /\ \A i \in 3..Len(s) : (s[i] >= 48 /\ s[i] <= 57) \/ (s[i] >= 97 /\ s[i] <= 102)
    /\ Len(s) > 3 => s[3] # 48
IsBin8(s) ==
    /\ Len(s) = 10
    /\ s[1] = 48 /\ s[2] = 98
    /\ \A i \in 3..10 : s[i] \in {48, 49}
\* a gain with at most 24 significant bits
IsFloat32(g) == BitLen(g) > 24 => g % Pow2(BitLen(g) - 24) = 0

Canonical(c) ==
    /\ \A i \in 1..Len(c.channels) :
          LET ch == c.channels[i]
          IN  /\ DOMAIN ch \subseteq ChannelKeys \cup OptionalKeys
              /\ IsDecimal(ch.channel_type)
              /\ IsDecimal(ch.interface_type)
              /\ "measurement_range" \in DOMAIN ch => IsBin8(ch.measurement_range)
              /\ "adc_hardware_gain" \in DOMAIN ch => IsFloat32(ch.adc_hardware_gain)
    /\ DOMAIN c.hardware = HardwareKeys
    /\ IsLowerHex(c.hardware.i2c_device_addr)
    /\ IsLowerHex(c.hardware.eeprom_i2c_addr)
    /\ \A i \in 1..Len(c.hardware.adc_i2c_addrs) : IsLowerHex(c.hardware.adc_i2c_addrs[i])
    /\ c.hardware.num_of_adcs = Len(c.hardware.adc_i2c_addrs)
    /\ \A k \in DOMAIN c.hardware.gpio_host_pins : c.hardware.gpio_host_pins[k] <= 15
    /\ IsBin8(c.pin_config)
    /\ c.status_update_interval_s <= 255

\* C2 (as stated): every record that pack_config accepts comes back from
\* unpack_config field for field, the fixed-point fields aside: the same
\* keys, the same values, the numeric strings in the same textual form, the
\* channels in the same order.
C2_RoundTripOfEveryRecord == cpc = "unpacked" => RoundTrips

\* C2 (amended): a record that pack_config accepts and that is written in
\* the form unpack_config writes (decimal, lowercase hex and 8-bit binary
\* strings without leading zeros or other prefixes, gains that are 32-bit
\* floats, pins and interval within their bytes, every hardware key present,
\* num_of_adcs the number of addresses, no other keys) comes back field for
\* field, the fixed-point fields aside.
C2_RoundTripOfCanonicalRecord == (cpc = "unpacked" /\ Canonical(cfg)) => RoundTrips

C2_Witness ==
    /\ cpc = "unpacked"
    /\ Canonical(cfg)
    /\ restored.err = ""
    /\ Len(cfg.channels) = 2
    /\ DOMAIN cfg.channels[2] = ChannelKeys \cup OptionalKeys
    /\ cfg.channels[2].adc_hardware_gain = 3 * (GainUnit \div 4)
    /\ restored.cfg.channels[2].adc_hardware_gain = 3 * (GainUnit \div 4)
    /\ restored.cfg.hardware.adc_i2c_addrs = cfg.hardware.adc_i2c_addrs

\* C3: a shunt_resistance or adc_offset that is not negative and fits the
\* 2-byte field (value x 1000 <= 65535) comes back from unpack_config after
\* pack_config less than 0.0005 away from the original.
C3_FixedPointWithinHalfStep ==
    (cpc = "unpacked" /\ restored.err = "") =>
        \A i \in 1..Len(cfg.channels) :
            \A k \in FixedPointKeys \cap DOMAIN cfg.channels[i] :
                LET original == cfg.channels[i][k]
                    decoded == restored.cfg.channels[i][k]
                IN  (original >= 0 /\ original <= 65535000) =>
                        /\ decoded - original < 500
                        /\ original - decoded < 500

\* C10: pack_config fails with EncodingError when a text field is longer
\* than 255 bytes of UTF-8 (the other fields being packable), and succeeds
\* when the longest is exactly 255 bytes; every text field is emitted as one
\* length byte followed by that many bytes of UTF-8, so a field of 255 bytes
\* is the byte 255 followed by its 255 bytes.
TextFields(c) ==
    <<c.module_type, c.mezzanine_type>>
    \o [i \in 1..Len(c.channels) |-> c.channels[i].name]
    \o <<c.network.wifi_ssid, c.network.wifi_password, c.mqtt.broker, c.mqtt.client_id,
         c.mqtt.base_topic, c.hardware.mode>>
IsTextPart(part) == part.kind = "text"
OtherFieldsPack(c) ==
    \A i \in 1..Len(Parts(c)) : Parts(c)[i].kind = "struct" => Parts(c)[i].err = ""
C10_TextFieldLengthLimit ==
    cpc # "start" =>
        LET texts == TextFields(cfg)
            tooLong == \E i \in 1..Len(texts) : Len(Utf8Encode(texts[i])) > 255
            emitted == SelectSeq(packed.parts, IsTextPart)
        IN  /\ (tooLong /\ OtherFieldsPack(cfg)) => packed.err = "EncodingError"
            /\ (~tooLong /\ OtherFieldsPack(cfg)) => packed.err = ""
            /\ packed.err = "" =>
                  /\ packed.bytes = JoinBytes(packed.parts, 1)
                  /\ Len(emitted) = Len(texts)
                  /\ \A i \in 1..Len(texts) :
                        /\ emitted[i].text = texts[i]
                        /\ emitted[i].bytes =
                              <<Len(Utf8Encode(texts[i]))>> \o Utf8Encode(texts[i])

C10_Witness ==
    /\ cpc # "start"
    /\ packed.err = ""
    /\ \E i \in 1..Len(packed.parts) :
          /\ packed.parts[i].kind = "text"
          /\ Len(packed.parts[i].text) = 85
          /\ Len(packed.parts[i].bytes) = 256
          /\ packed.parts[i].bytes[1] = 255

(***************************************************************************)
(* Properties of the codec on truncated streams                            *)
(***************************************************************************)
\* What unpack_config raises on a stream that ends early: buf[offset] past the
\* end, struct.unpack_from past the end, a character cut in two.
DecodingErrors == {"IndexError", "StructError", "UnicodeDecodeError"}

\* C11: unpack_config on a strict prefix of the bytes pack_config returned
\* (wherever the cut falls, the payload of a text field included) raises a
\* decoding error and returns no record.
C11_TruncatedStreamFails ==
    cpc = "truncated" => restored.err \in DecodingErrors /\ restored.cfg = <<>>

\* the cut falls inside the payload of module_type: unpack_string returns the
\* shortened text, and the next read fails
C11_Witness ==
    /\ cpc = "truncated"
    /\ cut > 1
    /\ cut <= Len(Utf8Encode(cfg.module_type))
    /\ restored.err = "IndexError"
    /\ restored.offset = 1 + Len(Utf8Encode(cfg.module_type))

(***************************************************************************)
(* Properties of single fields of the codec                                *)
(***************************************************************************)
\* The part of the stream packed that comes from the given place.
PartAt(at) == packed.parts[CHOOSE i \in 1..Len(packed.parts) : packed.parts[i].at = at]
PinsOf(c) == c.hardware.gpio_host_pins
\* The record differs from the record of test_eeprom.py in its pins at most.
OnlyPinsChanged == [cfg EXCEPT !.hardware.gpio_host_pins = PinsOf(BaseCfg)] = BaseCfg

\* C13: the 8 gpio_host_pins are packed two to a byte, the odd-numbered pin in
\* the high nibble and the next even-numbered pin in the low nibble; a value
\* above 15 does not make pack_config fail; unpack_config returns the low 4
\* bits of every value, which is the value itself when it is at most 15.
C13_GpioPinsTwoPerByte ==
    /\ (cpc # "start" /\ OnlyPinsChanged) => packed.err = ""
    /\ (cpc # "start" /\ packed.err = "") =>
          \A i \in {1, 3, 5, 7} :
              PartAt(<<"hardware", i, "gpio_host_pins">>).bytes =
                  <<(PinsOf(cfg)[PinKeys[i]] % 16) * 16 + (PinsOf(cfg)[PinKeys[i + 1]] % 16)>>
    /\ (cpc = "unpacked" /\ restored.err = "") =>
          /\ DOMAIN PinsOf(restored.cfg) = DOMAIN PinsOf(cfg)
          /\ \A k \in DOMAIN PinsOf(cfg) :
                /\ PinsOf(restored.cfg)[k] = PinsOf(cfg)[k] % 16
                /\ PinsOf(cfg)[k] <= 15 => PinsOf(restored.cfg)[k] = PinsOf(cfg)[k]

\* pin 7 is GPIO 18, as in test_eeprom.py, and comes back as 2
C13_Witness ==
    /\ cpc = "unpacked"
    /\ restored.err = ""
    /\ PinsOf(cfg)["7"] = 18
    /\ PinsOf(restored.cfg)["7"] = 2
    /\ PinsOf(restored.cfg)["8"] = PinsOf(cfg)["8"]

IntervalOf(c) == c.status_update_interval_s
OnlyIntervalChanged == [cfg EXCEPT !.status_update_interval_s = IntervalOf(BaseCfg)] = BaseCfg

\* C14: status_update_interval_s saturates on encode: for every v >= 0 the
\* byte pack_config emits, and the value unpack_config returns, is v when
\* v <= 255 and 255 when v > 255, and pack_config does not fail.
C14_StatusIntervalSaturates ==
    LET v == IntervalOf(cfg)
        stored == IF v > 255 THEN 255 ELSE v
    IN  /\ (cpc # "start" /\ OnlyIntervalChanged) => packed.err = ""
        /\ (cpc # "start" /\ packed.err = "") =>
              /\ PartAt(<<"pin_config", 0, "status_update_interval_s">>).bytes[2] = stored
              /\ packed.bytes[Len(packed.bytes)] = stored
        /\ (cpc = "unpacked" /\ restored.err = "") => IntervalOf(restored.cfg) = stored

C14_Witness ==
    /\ cpc = "unpacked"
    /\ IntervalOf(cfg) = 300
    /\ packed.bytes[Len(packed.bytes)] = 255
    /\ IntervalOf(restored.cfg) = 255

\* The optional fields of a channel in the order of their presence bits, with
\* the bit and the packed size of each.
OptionalFields ==
    <<[key |-> "measurement_range", bit |-> 1, size |-> 1],
      [key |-> "adc_hardware_gain", bit |-> 2, size |-> 4],
      [key |-> "shunt_resistance", bit |-> 4, size |-> 2],
      [key |-> "adc_offset", bit |-> 8, size |-> 2]>>
IsChannelPart(part, i) == part.at[1] = "channels" /\ part.at[2] = i
\* The parts pack_config emitted for channel i, and those before them.
ChannelParts(i) == SelectSeq(packed.parts, LAMBDA part : IsChannelPart(part, i))
FirstChannelPart(i) ==
    CHOOSE n \in 1..Len(packed.parts) :
        /\ IsChannelPart(packed.parts[n], i)
        /\ \A j \in 1..(n - 1) : ~IsChannelPart(packed.parts[j], i)
ChannelOffset(i) == Len(JoinBytes(SubSeq(packed.parts, 1, FirstChannelPart(i) - 1), 1))
PresentFields(ch) == SelectSeq(OptionalFields, LAMBDA f : f.key \in DOMAIN ch)
RECURSIVE SumBits(_, _)
SumBits(fields, n) == IF n = 0 THEN 0 ELSE SumBits(fields, n - 1) + fields[n].bit

\* C20: for every channel pack_config emits, after the name and the four
\* 8-bit fields, one presence byte whose bits 0..3 are set iff
\* measurement_range, adc_hardware_gain, shunt_resistance, adc_offset are in
\* the channel (bits 4..7 zero), then the present fields alone, in bit order,
\* on 1, 4, 2 and 2 bytes; unpack_config, reading the channel from where it
\* begins, returns a channel that has exactly the present optional fields and
\* ends exactly where the channel's bytes end.
C20_PresenceByteAndOptionalFields ==
    (cpc # "start" /\ packed.err = "") =>
        \A i \in 1..Len(cfg.channels) :
            LET ch == cfg.channels[i]
                parts == ChannelParts(i)
                present == PresentFields(ch)
                read == UnpackChannel(packed.bytes, ChannelOffset(i))
            IN  /\ Len(parts) = 3 + Len(present)
                /\ parts[1].at[3] = "name"
                /\ parts[2].at[3] = "BBBB" /\ Len(parts[2].bytes) = 4
                /\ parts[3].at[3] = "adc_fields_present"
                /\ parts[3].bytes = <<SumBits(present, Len(present))>>
                /\ parts[3].bytes[1] < 16
                /\ \A f \in 1..Len(OptionalFields) :
                      (BitAnd(parts[3].bytes[1], OptionalFields[f].bit) # 0)
                          = (OptionalFields[f].key \in DOMAIN ch)
                /\ \A n \in 1..Len(present) :
                      /\ parts[3 + n].at[3] = present[n].key
                      /\ Len(parts[3 + n].bytes) = present[n].size
                /\ read.err = ""
                /\ DOMAIN read.val = ChannelKeys \cup (DOMAIN ch \cap OptionalKeys)
                /\ read.off = ChannelOffset(i) + Len(JoinBytes(parts, 1))
                /\ cpc = "unpacked" =>
                      /\ restored.err = ""
                      /\ restored.cfg.channels[i] = read.val

C20_Witness ==
    /\ cpc = "unpacked"
    /\ restored.err = ""
    /\ Len(cfg.channels) = 2
    /\ DOMAIN cfg.channels[2] \cap OptionalKeys = {"adc_hardware_gain", "adc_offset"}
    /\ ChannelParts(2)[3].bytes = <<10>>
    /\ Len(ChannelParts(2)) = 5
    /\ DOMAIN restored.cfg.channels[2] = ChannelKeys \cup {"adc_hardware_gain", "adc_offset"}

(***************************************************************************)
(* Further properties of the storage driver                                *)
(***************************************************************************)
\* C21: every chunk transmitted by a write lies inside one 256-byte block, so
\* the select code and the address byte computed from the chunk's first
\* address are those of every byte of the chunk: each byte has the select code
\* of the first (as the driver computes it and as the data sheet's format
\* gives it), its low 8 address bits are the address byte plus its index
\* without wrapping, and the device stores it in the cell that follows the
\* previous byte's.
C21_WriteChunkInsideOneBlock ==
    op.kind \in {"write", "erase"} =>
        \A i \in 1..Len(chunks) :
            LET c == chunks[i]
            IN  /\ c.len >= 1
                /\ BlockOf(c.addr) = BlockOf(c.addr + c.len - 1)
                /\ c.dev = GetDeviceAddress(e2_bit, c.addr)
                /\ c.addr_byte = c.addr % BLOCK_SIZE
                /\ c.addr_byte + c.len <= BLOCK_SIZE
                /\ \A j \in 0..(c.len - 1) :
                      /\ GetDeviceAddress(e2_bit, c.addr + j) = c.dev
                      /\ DocumentedSelect(e2_bit, BlockOf(c.addr + j))
                            = DocumentedSelect(e2_bit, BlockOf(c.addr))
                      /\ (c.addr + j) % BLOCK_SIZE = c.addr_byte + j
                      /\ DevWriteCell(c.dev, c.addr_byte, j)
                            = DevBlock(c.dev) * BLOCK_SIZE + c.addr_byte + j

C21_Witness ==
    /\ Completed("write")
    /\ op.address = 252
    /\ Len(chunks) = 2
    /\ chunks[1].addr = 252 /\ chunks[1].len = 4
    /\ chunks[2].addr = 256 /\ chunks[2].len = 6
    /\ BlockOf(chunks[1].addr) # BlockOf(chunks[2].addr)

\* The arguments fail the bounds check of the operation called: the address
\* is outside 0..MEMORY_SIZE-1 or address + length is past MEMORY_SIZE; for
\* erase_page, the page number is outside 0..63.
FailsBoundsCheck(o) ==
    IF o.kind = "erase"
    THEN o.page < 0 \/ o.page >= MEMORY_SIZE \div PAGE_SIZE
    ELSE o.address < 0 \/ o.address >= MEMORY_SIZE \/ o.address + o.length > MEMORY_SIZE
Called == pc = "idle" /\ nops' = nops + 1

\* C22: validation precedes all bus traffic: a read, write, write_byte,
\* erase_page or dump called with arguments that fail the bounds check raises
\* at once, with no bus transaction and the device's memory and address
\* counter unchanged; any operation that is past its entry has arguments that
\* passed the check.
C22_Step ==
    /\ (Called /\ FailsBoundsCheck(op')) =>
          /\ pc' = "idle"
          /\ result'.status = "RangeError"
          /\ bus' = bus
          /\ chunks' = <<>>
          /\ mem' = mem
          /\ devptr' = devptr
          /\ devbusy' = devbusy
    /\ (pc' \notin {"idle", "new", "absent"}) => ~FailsBoundsCheck(op')
    /\ (chunks' # chunks /\ chunks' # <<>>) => ~FailsBoundsCheck(op')
C22_ValidationPrecedesBusTraffic == [][C22_Step]_vars

C22_Witness ==
    /\ op.kind = "dump"
    /\ op.address = 1014 /\ op.length = 20
    /\ pc = "idle"
    /\ result.status = "RangeError"
    /\ chunks = <<>>
    /\ mem = snap
    /\ prev.op.kind = "write_byte"
    /\ prev.op.address = 1024
    /\ prev.result.status = "RangeError"
    /\ mem = InitialMem
    /\ IsProbe(bus)

\* The address ranges of two operations are inside the memory and share no
\* address.
DisjointRanges(o1, o2) ==
    /\ 0 <= o1.address /\ o1.address + o1.length <= MEMORY_SIZE
    /\ 0 <= o2.address /\ o2.address + o2.length <= MEMORY_SIZE
    /\ (o1.address + o1.length <= o2.address \/ o2.address + o2.length <= o1.address)

\* write(A1, d1) and then write(A2, d2) completed on disjoint ranges, and then
\* read(A1, len(d1)) completed.
ReadAfterTwoWrites ==
    /\ Completed("read")
    /\ PrevCompleted("write")
    /\ prev.before.op.kind = "write"
    /\ prev.before.result.status = "ok"
    /\ DisjointRanges(prev.before.op, prev.op)
    /\ op.address = prev.before.op.address
    /\ op.length = prev.before.op.length

\* C23: writes to disjoint ranges do not interfere, even across 256-byte
\* blocks: after write(A1, d1) and then write(A2, d2), both completed on
\* disjoint ranges, read(A1, len(d1)) returns d1.
C23_DisjointWritesDoNotInterfere ==
    ReadAfterTwoWrites => result.value = prev.before.op.data

(***************************************************************************)
(* Further properties of the codec                                         *)
(***************************************************************************)
\* C24: re-packing is stable: for every record that pack_config accepts,
\* unpack_config consumes exactly the bytes packed, and packing the record it
\* restores gives the same bytes again.
C24_RepackingIsStable ==
    /\ cpc \in {"unpacked", "repacked"} =>
          /\ restored.err = ""
          /\ restored.offset = Len(packed.bytes)
    /\ cpc = "repacked" =>
          /\ repacked.err = ""
          /\ repacked.bytes = packed.bytes

====
